---- MODULE Spec2Model ----
(***************************************************************************)
(* Verification model of packet-post: the signaling relay                  *)
(* (src/server/signaling.cjs), the transfer-session stores                 *)
(* (src/lib/webrtc/network.ts, src/lib/webrtc/protocol.ts) and the         *)
(* browser's connection orchestrator                                       *)
(* (src/app/components/WebRTCTransfer.tsx).                                *)
(*                                                                         *)
(* Conventions.  A JavaScript string that the code only measures is        *)
(* modelled by its length; a value that is not a string is NotAString      *)
(* (or NotStr for a measured string).  Times are milliseconds, as          *)
(* Date.now() returns them.  The relay's metrics counters are write-only   *)
(* and are left out, as is Room.createdAt, which is never read.            *)
(***************************************************************************)
EXTENDS Integers, Sequences, FiniteSets, TLC

VARIABLES
    now,            \* Date.now()
    ticks,          \* how often the clock has advanced (bounds the model)
    rooms,          \* signaling.cjs `rooms`: a Map, kept in insertion order
    readyState,     \* ws.readyState of every connection
    errored,        \* connections whose 'error' event has fired
    wsPeer,         \* ws.__peer of every connection
    messageTimes,   \* ws.__messageTimes of every connection
    trace,          \* the sends and closes of the last handler, in program order
    event,          \* the event the last handler was run for
    activity,       \* per room id: time of the last successful join or forwarded relay
    store,          \* network.ts `store`: byId (a Map, in insertion order) and byCode
    returned,       \* what the last call on the in-memory store returned
    table,          \* the rows of the Supabase table webrtc_transfer_sessions
    creating,       \* the createTransferSessionInSupabase call in progress
    joining,        \* the joinTransferSessionInSupabase calls, one per caller
    minted,         \* how many random ids and tokens have been drawn
    orchestrator,   \* per browser: the state and refs of its WebRTCTransfer component
    delivered,      \* how many of the sender's data-channel messages the receiver got
    clicks,         \* how many user actions have happened (bounds the model)
    faults          \* how many failures the environment has caused (bounds the model)

relayVars == <<rooms, readyState, errored, wsPeer, messageTimes, trace, event, activity>>
memoryVars == <<store, returned>>
supabaseVars == <<table, creating, joining>>
storeVars == <<memoryVars, supabaseVars, minted>>
clientVars == <<orchestrator, delivered, clicks, faults>>
vars == <<now, ticks, relayVars, storeVars, clientVars>>

----------------------------------------------------------------------------
(* Program constants of the relay *)

MAX_MESSAGE_BYTES == 64 * 1024
MAX_MESSAGES_PER_10S == 120
ROOM_IDLE_TTL_MS == 30 * 60 * 1000
RATE_WINDOW_MS == 10 * 1000
MAX_SDP_LENGTH == 200000
MAX_CANDIDATE_LENGTH == 4000
MAX_ERROR_MESSAGE_LENGTH == 500

(* Bounds of the model *)

MaxBurst == 3
MaxSweepBurst == 2
MaxTicks == 3
MaxRateTicks == 2

----------------------------------------------------------------------------
(* Values *)

NotAString == "<not-a-string>"
NotStr == -1
IsString(v) == v # NotAString
Null == "<null>"

Conns == {"c1", "c2", "c3"}
T1 == "transfer-01"
T2 == "transfer-02"
ShortId == "short"
K1 == "token-aaaaaaaaaaaa"
K2 == "token-bbbbbbbbbbbb"
ShortToken == "tok"
Roles == {"sender", "receiver"}
RoomIds == {T1, T2}

NoPeer == [ws |-> Null, token |-> Null]

NoSignal ==
    [isObject |-> FALSE, type |-> NotAString, hasPayload |-> FALSE, sdp |-> NotStr,
     candidate |-> NotStr, reason |-> NotStr, code |-> NotStr, message |-> NotStr]
Signal(type) == [NoSignal EXCEPT !.isObject = TRUE, !.type = type]
WithPayload(sig) == [sig EXCEPT !.hasPayload = TRUE]
Offer(n) == [WithPayload(Signal("offer")) EXCEPT !.sdp = n]
Answer(n) == [WithPayload(Signal("answer")) EXCEPT !.sdp = n]
Ice(n) == [WithPayload(Signal("ice-candidate")) EXCEPT !.candidate = n]
Cancel(n) == [WithPayload(Signal("cancel")) EXCEPT !.reason = n]
ErrorSig(c, m) == [WithPayload(Signal("error")) EXCEPT !.code = c, !.message = m]

Max0(n) == IF n > 0 THEN n ELSE 0
SignalChars(sig) ==
    Max0(sig.sdp) + Max0(sig.candidate) + Max0(sig.reason) + Max0(sig.code) + Max0(sig.message)

(* A raw frame.  json says what JSON.parse makes of it; pad is the number of  *)
(* bytes besides the strings the frame carries (syntax, keys, other fields).  *)
Frame(type, transferId, role, token, signal, pad) ==
    [json |-> "object", type |-> type, transferId |-> transferId, role |-> role,
     token |-> token, signal |-> signal, pad |-> pad]
Unparsed(json, pad) ==
    [json |-> json, type |-> NotAString, transferId |-> NotAString, role |-> NotAString,
     token |-> NotAString, signal |-> NoSignal, pad |-> pad]

StrBytes(v) == IF IsString(v) THEN Len(v) ELSE 0
\* Buffer.byteLength(raw.toString(), 'utf8'): every UTF-16 unit of a string
\* takes at least one byte.
ByteLength(raw) ==
    raw.pad + StrBytes(raw.type) + StrBytes(raw.transferId) + StrBytes(raw.role)
        + StrBytes(raw.token) + SignalChars(raw.signal)

----------------------------------------------------------------------------
(* signaling.cjs helpers.  S is the relay's state as a record. *)

isValidRole(value) == value = "sender" \/ value = "receiver"
isValidTransferId(value) == IsString(value) /\ Len(value) >= 8 /\ Len(value) <= 128
isValidToken(value) == IsString(value) /\ Len(value) >= 16 /\ Len(value) <= 256
getOtherRole_same(role) == role
getOtherRole(role) == IF role = "sender" THEN "receiver" ELSE "sender"

\* a safeSend that drops peer-joined
safeSend_noPeerJoined(S, ws, payload) ==
    IF S.readyState[ws] # "OPEN" \/ payload.type = "peer-joined" THEN S
    ELSE [S EXCEPT !.trace = Append(@, [op |-> "send", to |-> ws, payload |-> payload])]

safeSend(S, ws, payload) ==
    IF S.readyState[ws] # "OPEN" THEN S
    ELSE [S EXCEPT !.trace = Append(@, [op |-> "send", to |-> ws, payload |-> payload])]

\* ws.close(code, reason): starts the closing handshake of an open socket
wsClose(S, ws, code, reason) ==
    IF S.readyState[ws] # "OPEN" THEN S
    ELSE [S EXCEPT !.readyState[ws] = "CLOSING",
                   !.trace = Append(@, [op |-> "close", to |-> ws, code |-> code,
                                        reason |-> reason])]

ErrorFrame(code) == [type |-> "error", code |-> code]

reject_alwaysClose(S, ws, code, shouldClose) ==
    wsClose(safeSend(S, ws, ErrorFrame(code)), ws, 1008, code)

reject(S, ws, code, shouldClose) ==
    LET S1 == safeSend(S, ws, ErrorFrame(code))
    IN IF shouldClose THEN wsClose(S1, ws, 1008, code) ELSE S1

parseMessage(raw) ==
    IF ByteLength(raw) > MAX_MESSAGE_BYTES THEN [ok |-> FALSE, reason |-> "message-too-large"]
    ELSE IF raw.json # "object" THEN [ok |-> FALSE, reason |-> "invalid-json"]
    ELSE [ok |-> TRUE, reason |-> ""]

HasRoom(rs, id) == \E i \in 1..Len(rs) : rs[i].transferId = id
RoomIndex(rs, id) == CHOOSE i \in 1..Len(rs) : rs[i].transferId = id
GetRoom(rs, id) == rs[RoomIndex(rs, id)]
DeleteRoom(rs, id) == SelectSeq(rs, LAMBDA r : r.transferId # id)

getOrCreateRoom(S, transferId) ==
    IF HasRoom(S.rooms, transferId) THEN S
    ELSE [S EXCEPT !.rooms = Append(@, [transferId |-> transferId, sender |-> NoPeer,
                                        receiver |-> NoPeer, touchedAt |-> S.now])]

cleanupRoomIfEmpty_keep(S, transferId) == S

cleanupRoomIfEmpty(S, transferId) ==
    IF ~HasRoom(S.rooms, transferId) THEN S
    ELSE LET room == GetRoom(S.rooms, transferId)
         IN IF room.sender = NoPeer /\ room.receiver = NoPeer
            THEN [S EXCEPT !.rooms = DeleteRoom(@, transferId)]
            ELSE S

validateSignal(signal) ==
    IF ~signal.isObject \/ ~IsString(signal.type) THEN FALSE
    ELSE IF signal.type = "ready" THEN TRUE
    ELSE IF signal.type = "offer" \/ signal.type = "answer"
        THEN signal.hasPayload /\ signal.sdp # NotStr /\ signal.sdp <= MAX_SDP_LENGTH
    ELSE IF signal.type = "ice-candidate"
        THEN signal.hasPayload /\ signal.candidate # NotStr
             /\ signal.candidate <= MAX_CANDIDATE_LENGTH
    ELSE IF signal.type = "cancel"
        THEN ~signal.hasPayload \/ signal.reason # NotStr
    ELSE IF signal.type = "error"
        THEN signal.hasPayload /\ signal.code # NotStr /\ signal.message # NotStr
             /\ signal.message <= MAX_ERROR_MESSAGE_LENGTH
    ELSE FALSE

InWindow(times, t) == SelectSeq(times, LAMBDA x : x >= t - RATE_WINDOW_MS)

checkSocketRate_offByOne(S, ws) ==
    LET kept == InWindow(S.messageTimes[ws], S.now)
    IN IF Len(kept) > MAX_MESSAGES_PER_10S
       THEN [ok |-> FALSE, S |-> [S EXCEPT !.messageTimes[ws] = kept]]
       ELSE [ok |-> TRUE, S |-> [S EXCEPT !.messageTimes[ws] = Append(kept, S.now)]]

checkSocketRate(S, ws) ==
    LET kept == InWindow(S.messageTimes[ws], S.now)
    IN IF Len(kept) >= MAX_MESSAGES_PER_10S
       THEN [ok |-> FALSE, S |-> [S EXCEPT !.messageTimes[ws] = kept]]
       ELSE [ok |-> TRUE, S |-> [S EXCEPT !.messageTimes[ws] = Append(kept, S.now)]]

NoBinding == [transferId |-> Null, role |-> Null, token |-> Null]

SetSlot(S, transferId, role, peer) ==
    [S EXCEPT !.rooms[RoomIndex(S.rooms, transferId)][role] = peer]
Touch(S, transferId) ==
    [S EXCEPT !.rooms[RoomIndex(S.rooms, transferId)].touchedAt = S.now]
Active(S, transferId) == [S EXCEPT !.activity[transferId] = S.now]

roleTaken_anyToken(currentPeer, token) == FALSE

\* the slot is held with another token (line 186)
roleTaken(currentPeer, token) == currentPeer # NoPeer /\ currentPeer.token # token

closeStale_keepOpen(S, currentPeer, ws) == S

\* the slot is held by another socket: close it (lines 191-193)
closeStale(S, currentPeer, ws) ==
    IF currentPeer # NoPeer /\ currentPeer.ws # ws
    THEN wsClose(S, currentPeer.ws, 1000, "replaced")
    ELSE S

attachPeer(S, ws, msg) ==
    IF ~isValidTransferId(msg.transferId) \/ ~isValidRole(msg.role) \/ ~isValidToken(msg.token)
    THEN reject(S, ws, "invalid-join", TRUE)
    ELSE
    LET transferId == msg.transferId
        role == msg.role
        token == msg.token
        S1 == Touch(getOrCreateRoom(S, transferId), transferId)
        currentPeer == GetRoom(S1.rooms, transferId)[role]
    IN  IF roleTaken(currentPeer, token)
        THEN reject(S1, ws, "role-taken", TRUE)
        ELSE
        LET S2 == closeStale(S1, currentPeer, ws)
            S3 == Active(SetSlot(S2, transferId, role, [ws |-> ws, token |-> token]),
                         transferId)
            S4 == [S3 EXCEPT !.wsPeer[ws] =
                       [transferId |-> transferId, role |-> role, token |-> token]]
            otherRole == getOtherRole(role)
            otherPeer == GetRoom(S4.rooms, transferId)[otherRole]
            S5 == safeSend(S4, ws, [type |-> "joined-room", transferId |-> transferId,
                                    role |-> role, peerPresent |-> (otherPeer # NoPeer)])
        IN  IF otherPeer = NoPeer THEN S5
            ELSE safeSend(
                    safeSend(S5, ws, [type |-> "peer-joined", transferId |-> transferId,
                                      role |-> role, peerRole |-> otherRole]),
                    otherPeer.ws, [type |-> "peer-joined", transferId |-> transferId,
                                   role |-> otherRole, peerRole |-> role])

sameCredentials_noToken(msg, peer) ==
    msg.transferId = peer.transferId /\ msg.role = peer.role

\* the envelope carries the identity the connection joined with (line 232)
sameCredentials(msg, peer) ==
    msg.transferId = peer.transferId /\ msg.role = peer.role /\ msg.token = peer.token

handleRelay(S, ws, msg) ==
    LET peer == S.wsPeer[ws]
    IN  IF peer = NoBinding THEN reject(S, ws, "not-joined", FALSE)
        ELSE IF ~sameCredentials(msg, peer) THEN reject(S, ws, "auth-mismatch", FALSE)
        ELSE IF ~validateSignal(msg.signal) THEN reject(S, ws, "invalid-signal", FALSE)
        ELSE IF ~HasRoom(S.rooms, peer.transferId) THEN reject(S, ws, "missing-room", FALSE)
        ELSE
        LET S1 == Touch(S, peer.transferId)
            targetRole == getOtherRole(peer.role)
            target == GetRoom(S1.rooms, peer.transferId)[targetRole]
        IN  IF target = NoPeer THEN reject(S1, ws, "peer-missing", FALSE)
            ELSE safeSend(Active(S1, peer.transferId), target.ws,
                          [type |-> "relay", transferId |-> peer.transferId,
                           role |-> targetRole, from |-> peer.role, signal |-> msg.signal])

PeerLeft(transferId, role, peerRole) ==
    [type |-> "peer-left", transferId |-> transferId, role |-> role, peerRole |-> peerRole]

notifyOther_silent(S, peer) == S

\* tell the occupant of the other slot (lines 279-288)
notifyOther(S, peer) ==
    LET otherRole == getOtherRole(peer.role)
        other == GetRoom(S.rooms, peer.transferId)[otherRole]
    IN  IF other # NoPeer
        THEN safeSend(S, other.ws, PeerLeft(peer.transferId, otherRole, peer.role))
        ELSE S

detachPeer(S, ws) ==
    LET peer == S.wsPeer[ws]
    IN  IF peer = NoBinding THEN S
        ELSE IF ~HasRoom(S.rooms, peer.transferId) THEN S
        ELSE
        LET slot == GetRoom(S.rooms, peer.transferId)[peer.role]
            S1 == IF slot # NoPeer /\ slot.ws = ws
                  THEN SetSlot(S, peer.transferId, peer.role, NoPeer)
                  ELSE S
        IN  cleanupRoomIfEmpty(notifyOther(S1, peer), peer.transferId)

\* one peer of an idle room: told and closed when its socket is open
expirePeer(S, peer) ==
    IF peer = NoPeer \/ S.readyState[peer.ws] # "OPEN" THEN S
    ELSE wsClose(safeSend(S, peer.ws, ErrorFrame("room-expired")), peer.ws, 1000,
                 "room-expired")

IsIdle_strict(room, t) == room.touchedAt + ROOM_IDLE_TTL_MS < t

IsIdle(room, t) == room.touchedAt + ROOM_IDLE_TTL_MS <= t

RECURSIVE pruneFrom(_, _, _)
\* the for-of loop over rooms.entries(), entry i of the Map as the loop began
pruneFrom(S, entries, i) ==
    IF i > Len(entries) THEN S
    ELSE LET room == entries[i]
         IN IF IsIdle(room, S.now)
            THEN LET S1 == expirePeer(expirePeer(S, room.sender), room.receiver)
                 IN pruneFrom([S1 EXCEPT !.rooms = DeleteRoom(@, room.transferId)],
                              entries, i + 1)
            ELSE pruneFrom(S, entries, i + 1)

pruneIdleRooms(S) == pruneFrom(S, S.rooms, 1)

\* ws.on('message')
onMessage(S, ws, raw) ==
    LET rate == checkSocketRate(S, ws)
        parsed == parseMessage(raw)
    IN  IF ~rate.ok THEN reject(rate.S, ws, "rate-limited", TRUE)
        ELSE IF ~parsed.ok THEN reject(rate.S, ws, parsed.reason, FALSE)
        ELSE IF ~IsString(raw.type) THEN reject(rate.S, ws, "invalid-type", FALSE)
        ELSE IF raw.type = "join-room" THEN attachPeer(rate.S, ws, raw)
        ELSE IF raw.type = "relay" THEN handleRelay(rate.S, ws, raw)
        ELSE IF raw.type = "leave-room" THEN wsClose(rate.S, ws, 1000, "leave-room")
        ELSE reject(rate.S, ws, "unknown-type", FALSE)

\* ws.on('close'): the socket is closed when the handler runs
onClose(S, ws) ==
    LET S1 == detachPeer([S EXCEPT !.readyState[ws] = "CLOSED"], ws)
    IN [S1 EXCEPT !.wsPeer[ws] = NoBinding, !.messageTimes[ws] = <<>>]

\* ws.on('error'): ws moves the socket to CLOSING before it emits 'error'
onError(S, ws) == detachPeer([S EXCEPT !.readyState[ws] = "CLOSING"], ws)

----------------------------------------------------------------------------
(* The transfer-session stores: program constants *)

DEFAULT_TTL_MINUTES == 15
MIN_TTL_MINUTES == 10
MAX_TTL_MINUTES == 30
MAX_CREATE_RETRIES == 5

(* Bounds of the store model *)

MaxStoreTicks == 3
MaxSupabaseTicks == 2
MaxFailures == 1

(* Values.  Ids and tokens are random strings in the code; the model draws   *)
(* a number no earlier draw gave for each, and 0 stands for an id or token   *)
(* that is absent (undefined in the record, null in the row).                *)

NoToken == 0
NoId == 0
Codes == {"AB12-CD34", "0F3E-77A0"}
JoinCallers == {1, 2, 3}

Max(a, b) == IF a >= b THEN a ELSE b
Min(a, b) == IF a <= b THEN a ELSE b

\* the ttlMinutes argument: omitted, or a number given in tenths of a minute
NoTtl == [given |-> FALSE, tenths |-> 0]
Ttl(tenths) == [given |-> TRUE, tenths |-> tenths]
TtlInputs == {NoTtl, Ttl(50), Ttl(105), Ttl(450)}

\* WEBRTC_SESSION_TTL_MINUTES is not set: baseTtl is the default
readTtlMinutes(ttlMinutes) ==
    LET baseTtl == DEFAULT_TTL_MINUTES
        requested == IF ttlMinutes.given THEN ttlMinutes.tenths ELSE baseTtl * 10
    IN  Max(MIN_TTL_MINUTES, Min(MAX_TTL_MINUTES, requested \div 10))

\* a transfer code as a caller types it: the code's upper-case text, possibly
\* in lower case and possibly with blanks around it
Typed(text, lower, padded) == [text |-> text, lower |-> lower, padded |-> padded]
\* transferCode.trim().toUpperCase()
Normalized(transferCode) == transferCode.text
TypedCodes == {Typed(c, l, FALSE) : c \in Codes, l \in BOOLEAN}

\* randomBytes(2).toString('hex'): two lower-case hexadecimal digits a byte
HexDigits == <<"0", "1", "2", "3", "4", "5", "6", "7", "8", "9", "a", "b", "c", "d", "e", "f">>
toHex(byte) == <<HexDigits[(byte \div 16) + 1], HexDigits[(byte % 16) + 1]>>

LowerCase ==
    <<"a", "b", "c", "d", "e", "f", "g", "h", "i", "j", "k", "l", "m",
      "n", "o", "p", "q", "r", "s", "t", "u", "v", "w", "x", "y", "z">>
UpperCase ==
    <<"A", "B", "C", "D", "E", "F", "G", "H", "I", "J", "K", "L", "M",
      "N", "O", "P", "Q", "R", "S", "T", "U", "V", "W", "X", "Y", "Z">>
Digits == {"0", "1", "2", "3", "4", "5", "6", "7", "8", "9"}

toUpperCase_asIs(chars) == chars

\* String.prototype.toUpperCase, a character at a time
toUpperCase(chars) ==
    [i \in 1..Len(chars) |->
        IF \E k \in 1..Len(LowerCase) : LowerCase[k] = chars[i]
        THEN UpperCase[CHOOSE k \in 1..Len(LowerCase) : LowerCase[k] = chars[i]]
        ELSE chars[i]]

\* what a caller does who types a code in small letters
toLowerCase(chars) ==
    [i \in 1..Len(chars) |->
        IF \E k \in 1..Len(UpperCase) : UpperCase[k] = chars[i]
        THEN LowerCase[CHOOSE k \in 1..Len(UpperCase) : UpperCase[k] = chars[i]]
        ELSE chars[i]]

\* makeTransferCode for the four random bytes drawn, as a sequence of characters
makeTransferCode(random) ==
    toUpperCase(toHex(random[1]) \o toHex(random[2]) \o <<"-">> \o
                toHex(random[3]) \o toHex(random[4]))

RECURSIVE Text(_)
Text(chars) == IF chars = <<>> THEN "" ELSE Head(chars) \o Text(Tail(chars))

\* the random bytes behind the codes of the model
Draws == {<<171, 18, 205, 52>>, <<15, 62, 119, 160>>}
CharsOf(transferCode) ==
    makeTransferCode(CHOOSE random \in Draws : Text(makeTransferCode(random)) = transferCode)

\* ^[A-Z0-9]{4}-[A-Z0-9]{4}$
MatchesCodePattern(chars) ==
    /\ Len(chars) = 9
    /\ chars[5] = "-"
    /\ \A i \in (1..9) \ {5} :
           chars[i] \in Digits \cup {UpperCase[k] : k \in 1..Len(UpperCase)}

\* WEBRTC_SESSION_TTL_MINUTES, not set or a number in tenths of a minute
EnvTtls == {NoTtl, Ttl(0), Ttl(5), Ttl(125), Ttl(10000)}

\* readTtlMinutes with the override fromEnv
readTtlMinutesWith(fromEnv, ttlMinutes) ==
    LET baseTtl == IF fromEnv.given /\ fromEnv.tenths > 0 THEN fromEnv.tenths
                   ELSE DEFAULT_TTL_MINUTES * 10
        requested == IF ttlMinutes.given THEN ttlMinutes.tenths ELSE baseTtl
    IN  Max(MIN_TTL_MINUTES, Min(MAX_TTL_MINUTES, requested \div 10))

\* new Date(ms).toISOString() and Date.parse: an ISO text keeps the milliseconds
ToISOString(ms) == [iso |-> ms]
DateParse(text) == text.iso

----------------------------------------------------------------------------
(* network.ts: the in-memory store.  M is the store with the clock, the     *)
(* number of random values drawn and the value the call returns.            *)

Failure(reason) == [ok |-> FALSE, reason |-> reason, transferId |-> NoId, receiverToken |-> NoToken]
Success(id, token) == [ok |-> TRUE, reason |-> "", transferId |-> id, receiverToken |-> token]
NoResult == Failure("none")

HasSession(byId, id) == \E i \in 1..Len(byId) : byId[i].transferId = id
SessionIndex(byId, id) == CHOOSE i \in 1..Len(byId) : byId[i].transferId = id

removeSession(M, session) ==
    [M EXCEPT !.byId = SelectSeq(@, LAMBDA r : r.transferId # session.transferId),
              !.byCode[session.transferCode] = NoId]

RECURSIVE pruneSessionsFrom(_, _, _)
\* the for-of loop over store.byId.values()
pruneSessionsFrom(M, entries, i) ==
    IF i > Len(entries) THEN M
    ELSE pruneSessionsFrom(IF entries[i].expiresAt <= M.now
                           THEN removeSession(M, entries[i]) ELSE M,
                           entries, i + 1)

pruneExpiredSessions(M) == pruneSessionsFrom(M, M.byId, 1)

\* the while loop of createTransferSession (lines 140-143): draws is what
\* makeTransferCode returns call after call; the loop goes on for as long as
\* byCode holds the code drawn, and has not ended when the draws are used up
RECURSIVE generate(_, _, _)
generate(byCode, draws, attempts) ==
    IF draws = <<>> THEN [ended |-> FALSE, transferCode |-> "", attempts |-> attempts]
    ELSE IF byCode[Head(draws)] # NoId THEN generate(byCode, Tail(draws), attempts + 1)
    ELSE [ended |-> TRUE, transferCode |-> Head(draws), attempts |-> attempts + 1]

\* transferCode is the code the generation loop ends with: one that byCode
\* does not hold
createTransferSession(M, ttlMinutes, transferCode) ==
    LET M1 == pruneExpiredSessions(M)
        ttl == readTtlMinutes(ttlMinutes)
        createdAt == M1.now
        session == [transferId |-> M1.minted + 1, transferCode |-> transferCode,
                    senderToken |-> M1.minted + 2, receiverToken |-> NoToken,
                    createdAt |-> createdAt, expiresAt |-> createdAt + ttl * 60 * 1000,
                    state |-> "created"]
    IN  [M1 EXCEPT !.byId = Append(@, session),
                   !.byCode[transferCode] = session.transferId,
                   !.minted = @ + 2,
                   !.result = Success(session.transferId, NoToken)]

\* the expiry check of joinTransferSession (line 176), t is what Date.now() reads
joinExpired(session, t) == session.expiresAt <= t

\* joinTransferSession without toUpperCase: a code typed in small letters is
\* not a key of byCode
joinTransferSession_caseSensitive(M, transferCode, elapsed) ==
    LET M1 == pruneExpiredSessions(M)
        transferId == M1.byCode[transferCode.text]
    IN  IF transferCode.lower \/ transferId = NoId \/ ~HasSession(M1.byId, transferId)
        THEN [M1 EXCEPT !.result = Failure("not-found")]
        ELSE
        LET i == SessionIndex(M1.byId, transferId)
            session == M1.byId[i]
        IN  IF joinExpired(session, M1.now + elapsed)
            THEN [removeSession(M1, session) EXCEPT !.result = Failure("expired")]
            ELSE IF session.state = "joined"
            THEN [M1 EXCEPT !.result = Failure("already-joined")]
            ELSE [M1 EXCEPT !.byId[i].receiverToken = M1.minted + 1,
                            !.byId[i].state = "joined",
                            !.minted = @ + 1,
                            !.result = Success(transferId, M1.minted + 1)]

\* elapsed is the time that passes between the two readings of Date.now()
joinTransferSession(M, transferCode, elapsed) ==
    LET M1 == pruneExpiredSessions(M)
        normalizedCode == Normalized(transferCode)
        transferId == M1.byCode[normalizedCode]
    IN  IF transferId = NoId THEN [M1 EXCEPT !.result = Failure("not-found")]
        ELSE IF ~HasSession(M1.byId, transferId)
        THEN [M1 EXCEPT !.byCode[normalizedCode] = NoId, !.result = Failure("not-found")]
        ELSE
        LET i == SessionIndex(M1.byId, transferId)
            session == M1.byId[i]
        IN  IF joinExpired(session, M1.now + elapsed)
            THEN [removeSession(M1, session) EXCEPT !.result = Failure("expired")]
            ELSE IF session.state = "joined"
            THEN [M1 EXCEPT !.result = Failure("already-joined")]
            ELSE [M1 EXCEPT !.byId[i].receiverToken = M1.minted + 1,
                            !.byId[i].state = "joined",
                            !.minted = @ + 1,
                            !.result = Success(transferId, M1.minted + 1)]

toPublicSession_stored(session, t) ==
    [transferId |-> session.transferId, transferCode |-> session.transferCode,
     expiresAt |-> ToISOString(session.expiresAt), state |-> session.state]

\* toPublicSession (lines 193-201); t is what Date.now() reads
toPublicSession(session, t) ==
    [transferId |-> session.transferId, transferCode |-> session.transferCode,
     expiresAt |-> ToISOString(session.expiresAt),
     state |-> IF session.expiresAt <= t THEN "expired" ELSE session.state]

----------------------------------------------------------------------------
(* protocol.ts: the Supabase store.  A request to the table is answered     *)
(* (net = "ok"), refused with an error before it has any effect ("error"),  *)
(* or carried out while its answer is lost ("lost"); the last two give      *)
(* result.ok = false.  The Supabase configuration is taken to be present.   *)

Net == {"ok", "error", "lost"}

HasRow(rows, code) == \E i \in 1..Len(rows) : rows[i].transfer_code = code
RowIndex(rows, code) == CHOOSE i \in 1..Len(rows) : rows[i].transfer_code = code

NoRow ==
    [transfer_id |-> NoId, transfer_code |-> "", sender_token |-> NoToken,
     receiver_token |-> NoToken, state |-> "none", expires_at |-> ToISOString(0)]

\* loadSessionByCode: the first row with this code, NoRow when there is none
loadSessionByCode(rows, transferCode) ==
    IF HasRow(rows, transferCode) THEN rows[RowIndex(rows, transferCode)] ELSE NoRow

patchMatches_unguarded(row, transferCode, nowIso) == row.transfer_code = transferCode

\* the filter of the PATCH: transfer_code eq, receiver_token is null,
\* state eq created, expires_at gt nowIso
patchMatches(row, transferCode, nowIso) ==
    /\ row.transfer_code = transferCode
    /\ row.receiver_token = NoToken
    /\ row.state = "created"
    /\ DateParse(row.expires_at) > DateParse(nowIso)

patched_tokenOnly(rows, transferCode, nowIso, receiverToken) ==
    [i \in 1..Len(rows) |->
        IF patchMatches(rows[i], transferCode, nowIso)
        THEN [rows[i] EXCEPT !.receiver_token = receiverToken]
        ELSE rows[i]]

\* the rows after the PATCH
patched(rows, transferCode, nowIso, receiverToken) ==
    [i \in 1..Len(rows) |->
        IF patchMatches(rows[i], transferCode, nowIso)
        THEN [rows[i] EXCEPT !.receiver_token = receiverToken, !.state = "joined"]
        ELSE rows[i]]

rowVerdict_vague(row, t) ==
    IF row = NoRow THEN "not-found"
    ELSE IF DateParse(row.expires_at) <= t THEN "expired"
    ELSE IF row.receiver_token # NoToken \/ row.state = "joined" THEN "unknown"
    ELSE "joinable"

\* the checks on a loaded row (lines 367-390 and 445-468); t is Date.now()
rowVerdict(row, t) ==
    IF row = NoRow THEN "not-found"
    ELSE IF DateParse(row.expires_at) <= t THEN "expired"
    ELSE IF row.receiver_token # NoToken \/ row.state = "joined" THEN "already-joined"
    ELSE "joinable"

\* join/route.ts: the HTTP status the route answers a join result with
joinStatus(result) ==
    IF result.ok THEN 200
    ELSE IF result.reason = "already-joined" THEN 409
    ELSE IF result.reason = "expired" THEN 410
    ELSE IF result.reason = "misconfigured" THEN 500
    ELSE IF result.reason = "unknown" THEN 503
    ELSE 404

IdleJoin ==
    [pc |-> "idle", transferCode |-> "", receiverToken |-> NoToken, nowIso |-> ToISOString(0),
     existed |-> FALSE, failed |-> FALSE, result |-> NoResult]

\* failed counts the requests of create calls that failed
IdleCreate ==
    [pc |-> "idle", attempt |-> 0, expiresAt |-> ToISOString(0),
     failed |-> 0, result |-> NoResult]

StoreInit ==
    /\ store = [byId |-> <<>>, byCode |-> [c \in Codes |-> NoId]]
    /\ returned = [op |-> "none", transferCode |-> "", at |-> 0, result |-> NoResult]
    /\ table = <<>>
    /\ creating = IdleCreate
    /\ joining = [j \in JoinCallers |-> IdleJoin]
    /\ minted = 0

----------------------------------------------------------------------------
(* The peer-connection orchestrator (src/app/components/WebRTCTransfer.tsx).  *)
(*                                                                            *)
(* One record per browser holds the component's state and refs.  A callback   *)
(* (socket handler, timer, promise continuation) sees the props and state of  *)
(* the render in which it was created: it carries that render's role,         *)
(* selectedFile and maxUploadBytes as its closure, while refs are read at the *)
(* time it runs.  statusRef follows status in an effect of its own.  Only the *)
(* 'ws' signaling provider is modelled.  State that is only displayed         *)
(* (progress, byte counts, socketState, copied flags, fallbackResult,         *)
(* fallbackUploading) is left out.  A file is modelled by its size; its bytes *)
(* are taken to be pairwise different and are named by their position, so a   *)
(* chunk is the range of positions it holds.                                  *)

CHUNK_SIZE == 64 * 1024
DEFAULT_MAX_UPLOAD_BYTES == 25 * 1024 * 1024
MAX_RECONNECT_ATTEMPTS == 3
RECONNECT_STEP_MS == 2500
RECONNECT_CAP_MS == 6000

\* bounds of the explored behaviours
MaxSockets == 2
MaxClicks == 3
MaxFaults == 1
MaxLag == 1
MaxCandidates == 1

Browsers == {"A", "B"}
SocketIds == 1..MaxSockets
NoFile == 0 - 1
NoCreds == [role |-> Null]
Creds(r) == [role |-> r]
NoWs == 0

\* the File the user picked, by size; WEB_UPLOAD_MAX_BYTES as deployments set it
FileSizes == {0, 1, CHUNK_SIZE, CHUNK_SIZE + 1, 150000}
ClientFiles == {CHUNK_SIZE + 1}
ConfiguredCeilings == {DEFAULT_MAX_UPLOAD_BYTES, CHUNK_SIZE}

\* what the callbacks created in a render close over
Closure(C) ==
    [role |-> C.role, selectedFile |-> C.selectedFile, maxUploadBytes |-> C.maxUploadBytes]
NoClosure == [role |-> Null, selectedFile |-> NoFile, maxUploadBytes |-> 0]

\* peer and offered are the far side of a socket: whether the relay has
\* answered the join and holds a peer in the room, and whether the peer has been
\* forwarded an offer that it has not answered yet
NoSocket ==
    [state |-> "unused", closure |-> NoClosure, creds |-> NoCreds, isReconnect |-> FALSE,
     manual |-> FALSE, peer |-> "unjoined", offered |-> FALSE]
NoPc ==
    [remote |-> Null, local |-> FALSE, queued |-> 0, applied |-> 0, gathered |-> 0,
     closure |-> NoClosure]
NoChannel == [readyState |-> Null, closure |-> NoClosure, sent |-> <<>>]
NoTimeout == [armed |-> FALSE, closure |-> NoClosure]
NoTimer == [nextAttempt |-> 0, delay |-> 0, creds |-> NoCreds, closure |-> NoClosure]
NoTask == [state |-> "none", closure |-> NoClosure]
NoLoop == [pc |-> "idle", offset |-> 0, doomed |-> FALSE, closure |-> NoClosure]
NoRequest == [kind |-> "none", closure |-> NoClosure]
NoIncoming == [size |-> NoFile, received |-> 0, chunks |-> <<>>]
NoDownload == <<[from |-> NoFile, to |-> NoFile]>>

\* messages of the data channel: two JSON control messages and binary chunks
Meta(size) == [kind |-> "meta", size |-> size, from |-> 0, to |-> 0]
Done == [kind |-> "done", size |-> 0, from |-> 0, to |-> 0]
CancelMessage == [kind |-> "cancel", size |-> 0, from |-> 0, to |-> 0]
Binary(range) == [kind |-> "binary", size |-> 0, from |-> range.from, to |-> range.to]

slice_unclamped(size, start, end) == [from |-> start, to |-> end]

\* Blob.slice(start, end) of a file of the given size
slice(size, start, end) == [from |-> Min(start, size), to |-> Min(end, size)]
byteLength(range) == range.to - range.from

RECURSIVE BytesOf(_)
\* the bytes of new Blob(chunks): the chunks' ranges in order, empty ones
\* dropped and adjoining ones merged
BytesOf(chunks) ==
    IF chunks = <<>> THEN <<>>
    ELSE LET rest == BytesOf(Tail(chunks))
             c == Head(chunks)
         IN  IF c.from = c.to THEN rest
             ELSE IF rest # <<>> /\ rest[1].from = c.to
             THEN <<[from |-> c.from, to |-> rest[1].to]>> \o Tail(rest)
             ELSE <<c>> \o rest
\* the bytes of a file of the given size
SourceBytes(size) == BytesOf(<<[from |-> 0, to |-> size]>>)

InitialClient ==
    [role |-> "sender", status |-> "idle", statusRef |-> "idle", selectedFile |-> NoFile,
     maxUploadBytes |-> DEFAULT_MAX_UPLOAD_BYTES, configured |-> FALSE, error |-> FALSE,
     credsRef |-> NoCreds, sockets |-> [i \in SocketIds |-> NoSocket], wsRef |-> NoWs,
     pcRef |-> NoPc, dataChannelRef |-> NoChannel, stale |-> {},
     connectTimeoutRef |-> NoTimeout, offerSentRef |-> FALSE,
     transferStartedRef |-> FALSE, fallbackAttemptedRef |-> FALSE,
     manualSocketCloseRef |-> FALSE, reconnectTimerRef |-> NoTimer,
     reconnectAttemptRef |-> 0, offerTask |-> NoTask, answerTask |-> NoTask,
     acceptTask |-> NoTask, loop |-> NoLoop, request |-> NoRequest,
     incomingRef |-> NoIncoming, binaryType |-> "arraybuffer", reading |-> <<>>,
     download |-> NoDownload, signals |-> <<>>, inbox |-> <<>>, uploads |-> 0,
     lag |-> 0, reconnects |-> 0, cancelled |-> FALSE, offers |-> 0, declined |-> FALSE]


----------------------------------------------------------------------------
(* WebRTCTransfer.tsx: the component's functions.  C is one browser's record, *)
(* cl the closure of the callback that runs.                                  *)

setStatus(C, status) == [C EXCEPT !.status = status]

clearConnectTimeout(C) == [C EXCEPT !.connectTimeoutRef = NoTimeout]
clearReconnectTimer(C) == [C EXCEPT !.reconnectTimerRef = NoTimer]

resetTransferState(C) ==
    [C EXCEPT !.incomingRef = NoIncoming, !.offerSentRef = FALSE,
              !.transferStartedRef = FALSE, !.fallbackAttemptedRef = FALSE]

\* a promise continuation that waits on a closed connection or channel will
\* find it closed
Doomed(task) == IF task.state = "pending" THEN [task EXCEPT !.state = "doomed"] ELSE task

\* dataChannelRef.current.close() and pcRef.current.close().  Whether a browser
\* still fires 'close' on a channel it closed itself differs between browsers:
\* the event is left pending in stale and may or may not be delivered.
closePeerConnection(C) ==
    LET C1 == clearConnectTimeout(C)
        C2 == IF C1.dataChannelRef = NoChannel THEN C1
              ELSE [C1 EXCEPT !.dataChannelRef = NoChannel,
                              !.stale = IF C1.dataChannelRef.readyState = "closed" THEN @
                                        ELSE @ \cup {C1.dataChannelRef.closure},
                              !.loop = IF @.pc = "sending" THEN [@ EXCEPT !.doomed = TRUE]
                                       ELSE @]
    IN  IF C2.pcRef = NoPc THEN C2
        ELSE [C2 EXCEPT !.pcRef = NoPc, !.offerTask = Doomed(@),
                        !.answerTask = Doomed(@), !.acceptTask = Doomed(@)]

wsSend(C, type) == [C EXCEPT !.signals = Append(@, type)]

\* ws.close(): a socket that is still connecting fails, which fires 'error'
\* before 'close'
closeSocket(socket) ==
    IF socket.state = "open" THEN [socket EXCEPT !.state = "closing", !.manual = TRUE]
    ELSE IF socket.state = "connecting"
    THEN [socket EXCEPT !.state = "failing", !.manual = TRUE]
    ELSE socket

closeSignalingSocket(C) ==
    LET ws == C.wsRef
        C1 == clearReconnectTimer([C EXCEPT !.manualSocketCloseRef = TRUE])
        C2 == IF ws # NoWs /\ C1.sockets[ws].state = "open" /\ C1.credsRef # NoCreds
              THEN wsSend(C1, "leave-room")
              ELSE C1
        C3 == IF ws # NoWs THEN [C2 EXCEPT !.sockets[ws] = closeSocket(@)] ELSE C2
    IN  [C3 EXCEPT !.wsRef = NoWs]

\* up to the fetch of /api/upload; what follows the fetch only changes what
\* is displayed
fallbackToUpload(C, cl) ==
    IF cl.role # "sender" \/ cl.selectedFile = NoFile \/ C.fallbackAttemptedRef THEN C
    ELSE IF cl.selectedFile > cl.maxUploadBytes THEN [C EXCEPT !.error = TRUE]
    ELSE [C EXCEPT !.fallbackAttemptedRef = TRUE, !.error = TRUE, !.uploads = @ + 1]

handleLiveFailure_keepStatus(C, cl) == fallbackToUpload(closePeerConnection(C), cl)

handleLiveFailure(C, cl) ==
    fallbackToUpload(closePeerConnection(setStatus(C, "failed")), cl)

\* Math.min(2500 * nextAttempt, 6000)
reconnectDelay(nextAttempt) == Min(RECONNECT_STEP_MS * nextAttempt, RECONNECT_CAP_MS)

scheduleReconnect(C, cl) ==
    IF C.credsRef = NoCreds \/ C.reconnectAttemptRef >= MAX_RECONNECT_ATTEMPTS THEN C
    ELSE [C EXCEPT !.reconnectTimerRef =
              [nextAttempt |-> C.reconnectAttemptRef + 1,
               delay |-> reconnectDelay(C.reconnectAttemptRef + 1),
               creds |-> C.credsRef, closure |-> cl]]

\* the relay frame goes out on wsRef.current, if that socket is open; the
\* relay forwards it if the room holds a peer.  offers counts the offers that
\* went out since the session attempt began.
sendSignal(C, type) ==
    IF C.credsRef = NoCreds THEN C
    ELSE IF C.wsRef = NoWs THEN C
    ELSE IF C.sockets[C.wsRef].state # "open" THEN C
    ELSE [wsSend(C, type) EXCEPT
              !.sockets[C.wsRef].offered =
                  IF type = "offer" /\ C.sockets[C.wsRef].peer = "present" THEN TRUE ELSE @,
              !.offers = IF type = "offer" THEN @ + 1 ELSE @]

sendReadySignal_never(C) == C

sendReadySignal(C) == IF C.credsRef = NoCreds THEN C ELSE sendSignal(C, "ready")

startConnectionTimeout(C, cl) ==
    [clearConnectTimeout(C) EXCEPT !.connectTimeoutRef = [armed |-> TRUE, closure |-> cl]]

\* the sender also creates the data channel, which setupDataChannel installs
ensurePeerConnection(C, cl) ==
    IF C.pcRef # NoPc THEN C
    ELSE LET C1 == [C EXCEPT !.pcRef = [NoPc EXCEPT !.remote = "none", !.closure = cl],
                             !.cancelled = FALSE]
         IN  IF C1.credsRef.role = "sender"
             THEN [C1 EXCEPT !.dataChannelRef = [NoChannel EXCEPT !.readyState = "connecting",
                                                                  !.closure = cl]]
             ELSE C1

\* a startSenderOffer without the guard on offerSentRef
startSenderOffer_unguarded(C, cl) ==
    IF C.credsRef.role # "sender" THEN C
    ELSE LET C1 == [ensurePeerConnection(C, cl) EXCEPT !.offerSentRef = TRUE]
         IN  [startConnectionTimeout(C1, cl) EXCEPT
                  !.offerTask = [state |-> "pending", closure |-> cl]]

\* up to the first await; OfferCreated is the rest.  declined records that
\* the guard on offerSentRef has turned a sender's call away.
startSenderOffer(C, cl) ==
    IF C.offerSentRef \/ C.credsRef.role # "sender"
    THEN [C EXCEPT !.declined = @ \/ C.credsRef.role = "sender"]
    ELSE LET C1 == [ensurePeerConnection(C, cl) EXCEPT !.offerSentRef = TRUE]
         IN  [startConnectionTimeout(C1, cl) EXCEPT
                  !.offerTask = [state |-> "pending", closure |-> cl]]

\* RTCPeerConnection.addIceCandidate: rejected while the connection has no
\* remote description; queued behind a setRemoteDescription that is under way
addIceCandidate(C, cl) ==
    IF C.pcRef.remote = "none" THEN handleLiveFailure(C, cl)
    ELSE IF C.pcRef.remote = "pending" THEN [C EXCEPT !.pcRef.queued = @ + 1]
    ELSE [C EXCEPT !.pcRef.applied = @ + 1]

\* up to the first await of each branch
handleRelaySignal(C, cl, type) ==
    CASE type = "ready" ->
            IF C.credsRef.role = "sender" THEN startSenderOffer(C, cl) ELSE C
      [] type = "offer" ->
            IF C.credsRef.role # "receiver" THEN C
            ELSE LET C1 == ensurePeerConnection(startConnectionTimeout(C, cl), cl)
                 IN  [C1 EXCEPT !.pcRef.remote = "pending",
                                !.answerTask = [state |-> "pending", closure |-> cl]]
      [] type = "answer" ->
            IF C.credsRef.role # "sender" THEN C
            ELSE [ensurePeerConnection(C, cl) EXCEPT
                      !.pcRef.remote = "pending",
                      !.acceptTask = [state |-> "pending", closure |-> cl]]
      [] type = "ice-candidate" -> addIceCandidate(ensurePeerConnection(C, cl), cl)
      [] OTHER -> handleLiveFailure(C, cl)

\* setRemoteDescription has resolved: the candidates queued behind it are applied
remoteSet(C) ==
    [C EXCEPT !.pcRef.remote = "set", !.pcRef.applied = @ + C.pcRef.queued,
              !.pcRef.queued = 0]

FreeSocket(C) == CHOOSE i \in SocketIds : C.sockets[i].state = "unused"
    /\ \A j \in SocketIds : C.sockets[j].state = "unused" => i <= j

connectWebSocketSignaling(C, creds, isReconnect, cl) ==
    LET ws == FreeSocket(C)
    IN  [C EXCEPT !.sockets[ws] = [NoSocket EXCEPT !.state = "connecting", !.closure = cl,
                                                   !.creds = creds,
                                                   !.isReconnect = isReconnect],
                  !.wsRef = ws]

connectSignaling(C, creds, isReconnect, cl) ==
    LET C1 == closePeerConnection(
                  [closeSignalingSocket(C) EXCEPT !.manualSocketCloseRef = FALSE])
        C2 == IF isReconnect THEN [C1 EXCEPT !.reconnects = @ + 1]
              ELSE [resetTransferState(C1) EXCEPT !.reconnectAttemptRef = 0,
                                                  !.reconnects = 0, !.uploads = 0,
                                                  !.cancelled = FALSE, !.offers = 0,
                                                  !.declined = FALSE]
    IN  connectWebSocketSignaling([C2 EXCEPT !.credsRef = creds], creds, isReconnect, cl)

\* ws.onopen
onSocketOpen(C, ws) ==
    LET C1 == clearReconnectTimer([C EXCEPT !.sockets[ws].state = "open"])
        C2 == IF C.sockets[ws].isReconnect THEN setStatus(C1, "connecting") ELSE C1
    IN  wsSend(C2, "join-room")

\* the rest of startSenderOffer, of the offer branch and of the answer branch
\* of handleRelaySignal, when their promises have resolved
offerMade(C) == sendSignal([C EXCEPT !.pcRef.local = TRUE], "offer")
answerMade(C) == sendSignal([remoteSet(C) EXCEPT !.pcRef.local = TRUE], "answer")

\* connection.onicecandidate, for a candidate that is not null
onIceCandidate(C) == sendSignal([C EXCEPT !.pcRef.gathered = @ + 1], "ice-candidate")

completeReceiverDownload(C) ==
    IF C.incomingRef = NoIncoming THEN C
    ELSE [setStatus(C, "completed") EXCEPT !.download = BytesOf(C.incomingRef.chunks)]

\* incoming.chunks.push(payload); incoming.received += payload.byteLength
pushChunk(C, data) ==
    IF C.incomingRef = NoIncoming THEN C
    ELSE [C EXCEPT !.incomingRef.chunks = Append(@, [from |-> data.from, to |-> data.to]),
                   !.incomingRef.received = @ + (data.to - data.from)]

\* up to the await of a Blob's arrayBuffer(); ReadDone is the rest
handleIncomingDataMessage(C, cl, data) ==
    CASE data.kind = "meta" ->
            [setStatus(C, "transferring") EXCEPT
                 !.incomingRef = [size |-> data.size, received |-> 0, chunks |-> <<>>]]
      [] data.kind = "done" -> completeReceiverDownload(C)
      [] data.kind = "cancel" -> handleLiveFailure([C EXCEPT !.cancelled = TRUE], cl)
      [] OTHER ->
            IF C.binaryType = "blob" THEN [C EXCEPT !.reading = Append(@, data)]
            ELSE pushChunk(C, data)

channelSend_first(C, data) == [C EXCEPT !.dataChannelRef.sent = <<data>> \o @]

\* channel.send(data): sent is what the channel has been given, in order
channelSend(C, data) == [C EXCEPT !.dataChannelRef.sent = Append(@, data)]

\* the transfer task from the top of the while loop to its next await, or to
\* its end
transferLoop(C, cl) ==
    IF C.loop.offset < cl.selectedFile
    THEN C
    ELSE [channelSend(setStatus(C, "completed"), Done) EXCEPT !.loop = NoLoop]

\* channel.onopen
onChannelOpen(C, cl) ==
    LET C1 == [setStatus(clearConnectTimeout(C), "connected") EXCEPT
                   !.dataChannelRef.readyState = "open"]
    IN  IF C1.credsRef.role = "sender" /\ cl.selectedFile # NoFile /\ ~C1.transferStartedRef
        THEN LET C2 == [channelSend(setStatus(C1, "transferring"), Meta(cl.selectedFile))
                            EXCEPT !.transferStartedRef = TRUE,
                                   !.loop = [pc |-> "sending", offset |-> 0,
                                             doomed |-> FALSE, closure |-> cl]]
             IN  transferLoop(C2, cl)
        ELSE C1

\* the transfer task after its awaits: channel.send(chunk) throws on a channel
\* that is no longer open
sendChunk(C) ==
    LET cl == C.loop.closure
        chunk == slice(cl.selectedFile, C.loop.offset, C.loop.offset + CHUNK_SIZE)
    IN  IF C.loop.doomed
        THEN handleLiveFailure([C EXCEPT !.loop = NoLoop], cl)
        ELSE transferLoop([channelSend(C, Binary(chunk)) EXCEPT
                               !.loop.offset = @ + byteLength(chunk)], cl)

ClientInit ==
    /\ orchestrator = [b \in Browsers |-> InitialClient]
    /\ clicks = 0
    /\ faults = 0
    /\ delivered = 0

----------------------------------------------------------------------------
(* The relay as a state machine *)

\* peer is what a closing connection was bound to, removed the number of rooms
\* the handler took out of the table
Event(kind, ws, peer, removed) ==
    [kind |-> kind, ws |-> ws, peer |-> peer, removed |-> removed]

Relay ==
    [now |-> now, rooms |-> rooms, readyState |-> readyState, wsPeer |-> wsPeer,
     messageTimes |-> messageTimes, trace |-> <<>>, activity |-> activity]

CommitRelay(S) ==
    /\ rooms' = S.rooms
    /\ readyState' = S.readyState
    /\ wsPeer' = S.wsPeer
    /\ messageTimes' = S.messageTimes
    /\ trace' = S.trace
    /\ activity' = [id \in RoomIds |-> IF HasRoom(S.rooms, id) THEN S.activity[id] ELSE -1]

Commit(S) == CommitRelay(S) /\ UNCHANGED <<storeVars, clientVars>>

Signals ==
    {Signal("ready"), Offer(MAX_SDP_LENGTH), Offer(MAX_SDP_LENGTH + 1), Offer(NotStr),
     Signal("offer"), Answer(MAX_SDP_LENGTH + 1),
     Ice(MAX_CANDIDATE_LENGTH), Ice(MAX_CANDIDATE_LENGTH + 1),
     Signal("cancel"), Cancel(NotStr),
     ErrorSig(12, MAX_ERROR_MESSAGE_LENGTH), ErrorSig(12, MAX_ERROR_MESSAGE_LENGTH + 1),
     Signal("bogus"), NoSignal}

SmallPad == 64

Join(t, r, k) == Frame("join-room", t, r, k, NoSignal, SmallPad)

\* the join-room frames each client may send: c1 is the sender of T1 (and may
\* move on to T2), c2 claims the same role with the same or with another
\* token, c3 is the receiver of T1
JoinMenu(ws) ==
    CASE ws = "c1" -> {Join(T1, "sender", K1), Join(T2, "sender", K1), Join(ShortId, "sender", K1)}
      [] ws = "c2" -> {Join(T1, "sender", K1), Join(T1, "sender", K2), Join(T1, "admin", K1)}
      [] OTHER -> {Join(T1, "receiver", K1), Join(T2, "receiver", K1), Join(T1, "receiver", ShortToken)}

\* what a client may put into a relay frame: the identity its connection is
\* bound to, or that identity with one field changed
Matching(ws) ==
    IF wsPeer[ws] = NoBinding THEN [transferId |-> T1, role |-> "sender", token |-> K1]
    ELSE wsPeer[ws]
Credentials(ws) ==
    LET p == Matching(ws)
    IN {p, [p EXCEPT !.transferId = IF @ = T1 THEN T2 ELSE T1],
           [p EXCEPT !.role = getOtherRole(@)],
           [p EXCEPT !.token = IF @ = K1 THEN K2 ELSE K1]}
Mismatched(ws) == Credentials(ws) \ {Matching(ws)}
Relayed(p, sig) == Frame("relay", p.transferId, p.role, p.token, sig, SmallPad)

\* the signals clients send in the explored behaviours
SentSignals ==
    {Signal("ready"), Offer(MAX_SDP_LENGTH + 1), Ice(MAX_CANDIDATE_LENGTH),
     Ice(MAX_CANDIDATE_LENGTH + 1)}

RelayFrames(ws) ==
    {Relayed(Matching(ws), sig) : sig \in SentSignals}
    \cup {Relayed(p, Signal("ready")) : p \in Mismatched(ws)}

OtherFrames ==
    {Unparsed("garbage", SmallPad), Unparsed("garbage", MAX_MESSAGE_BYTES + 1),
     Unparsed("object", SmallPad),
     Frame("ping", T1, "sender", K1, NoSignal, SmallPad),
     Frame("leave-room", T1, "sender", K1, NoSignal, SmallPad)}

Frames(ws) == JoinMenu(ws) \cup RelayFrames(ws) \cup OtherFrames

SweepJoins(ws) ==
    IF ws = "c1" THEN {Join(T1, "sender", K1)}
    ELSE {Join(T1, "receiver", K1), Join(T2, "receiver", K1)}
SweepFrames(ws) ==
    SweepJoins(ws)
    \cup {Relayed(Matching(ws), Signal("ready"))}

\* a socket delivers 'message' until its 'close'; frames already in flight
\* still arrive after the relay has called ws.close()
CanReceive(ws) == readyState[ws] \in {"OPEN", "CLOSING"} /\ ws \notin errored
Burst(ws) == Len(InWindow(messageTimes[ws], now))
RECURSIVE SumBurst(_)
SumBurst(C) == IF C = {} THEN 0 ELSE LET c == CHOOSE x \in C : TRUE IN Burst(c) + SumBurst(C \ {c})

RelayInit ==
    /\ now = 0
    /\ ticks = 0
    /\ rooms = <<>>
    /\ readyState = [c \in Conns |-> "NONE"]
    /\ errored = {}
    /\ wsPeer = [c \in Conns |-> NoBinding]
    /\ messageTimes = [c \in Conns |-> <<>>]
    /\ trace = <<>>
    /\ event = Event("init", Null, NoBinding, 0)
    /\ activity = [id \in RoomIds |-> -1]

Init == RelayInit /\ StoreInit /\ ClientInit

\* wss.on('connection')
Connect(ws) ==
    /\ readyState[ws] = "NONE"
    /\ Commit([Relay EXCEPT !.readyState[ws] = "OPEN"])
    /\ event' = Event("connection", ws, NoBinding, 0)
    /\ UNCHANGED <<now, ticks, errored>>

OnMessage(ws, raw) ==
    /\ CanReceive(ws)
    /\ Commit(onMessage(Relay, ws, raw))
    /\ event' = Event("message", ws, NoBinding, 0)
    /\ UNCHANGED <<now, ticks, errored>>

OnClose(ws) ==
    /\ readyState[ws] \in {"OPEN", "CLOSING"}
    /\ Commit(onClose(Relay, ws))
    /\ event' = Event("close", ws, wsPeer[ws], Len(rooms) - Len(rooms'))
    /\ errored' = errored \ {ws}
    /\ UNCHANGED <<now, ticks>>

OnError(ws) ==
    /\ CanReceive(ws)
    /\ Commit(onError(Relay, ws))
    /\ event' = Event("error", ws, wsPeer[ws], Len(rooms) - Len(rooms'))
    /\ errored' = errored \cup {ws}
    /\ UNCHANGED <<now, ticks>>

\* setInterval(pruneIdleRooms, 60 * 1000)
Prune ==
    /\ Commit(pruneIdleRooms(Relay))
    /\ event' = Event("sweep", Null, NoBinding, Len(rooms) - Len(rooms'))
    /\ UNCHANGED <<now, ticks, errored>>

Tick(step, max) ==
    /\ ticks < max
    /\ now' = now + step
    /\ ticks' = ticks + 1
    /\ Commit(Relay)
    /\ event' = Event("tick", Null, NoBinding, 0)
    /\ UNCHANGED errored

RoomTick == Tick(ROOM_IDLE_TTL_MS \div 2, MaxTicks)

Next ==
    \/ \E ws \in Conns : Connect(ws)
    \/ \E ws \in Conns : \E raw \in Frames(ws) : SumBurst(Conns) < MaxBurst /\ OnMessage(ws, raw)
    \/ \E ws \in Conns : OnClose(ws)
    \/ \E ws \in Conns : OnError(ws)

Spec == Init /\ [][Next]_vars

SweepConns == {"c1", "c3"}

NextSweep ==
    \/ \E ws \in SweepConns : Connect(ws)
    \/ \E ws \in SweepConns : \E raw \in SweepFrames(ws) : SumBurst(SweepConns) < MaxSweepBurst /\ OnMessage(ws, raw)
    \/ \E ws \in SweepConns : OnClose(ws)
    \/ Prune
    \/ RoomTick

SpecSweep == Init /\ [][NextSweep]_vars

RateConns == {"c1"}
RateFrames == {Unparsed("garbage", SmallPad)}
RateTick == Tick(RATE_WINDOW_MS, MaxRateTicks)

NextRate ==
    \/ \E ws \in RateConns : Connect(ws)
    \/ \E ws \in RateConns : \E raw \in RateFrames : OnMessage(ws, raw)
    \/ \E ws \in RateConns : OnClose(ws)
    \/ RateTick

SpecRate == Init /\ [][NextRate]_vars

\* two clients, one of which joins a second time on the same connection with
\* another room or another role, and the ready signals they relay
MaxRoomBurst == 4
RoomConns == {"c1", "c3"}
RoomJoins(ws) ==
    IF ws = "c1" THEN {Join(T1, "sender", K1)}
    ELSE {Join(T1, "receiver", K1), Join(T2, "receiver", K1), Join(T1, "sender", K1)}
RoomFrames(ws) == RoomJoins(ws) \cup {Relayed(Matching(ws), Signal("ready"))}

NextRooms ==
    \/ \E ws \in RoomConns : Connect(ws)
    \/ \E ws \in RoomConns : \E raw \in RoomFrames(ws) : SumBurst(RoomConns) < MaxRoomBurst /\ OnMessage(ws, raw)
    \/ \E ws \in RoomConns : OnClose(ws)

SpecRooms == Init /\ [][NextRooms]_vars

----------------------------------------------------------------------------
(* The stores as state machines *)

Memory == [byId |-> store.byId, byCode |-> store.byCode, now |-> now, minted |-> minted,
           result |-> NoResult]

CommitMemory(M, op, transferCode) ==
    /\ store' = [byId |-> M.byId, byCode |-> M.byCode]
    /\ minted' = M.minted
    /\ returned' = [op |-> op, transferCode |-> transferCode, at |-> now', result |-> M.result]
    /\ UNCHANGED <<relayVars, supabaseVars, clientVars>>

\* the codes the generation loop of createTransferSession can end with
FreeCodes == {c \in Codes : pruneExpiredSessions(Memory).byCode[c] = NoId}

CreateTransferSession(ttlMinutes, transferCode) ==
    /\ transferCode \in FreeCodes
    /\ UNCHANGED <<now, ticks>>
    /\ CommitMemory(createTransferSession(Memory, ttlMinutes, transferCode), "create",
                    transferCode)

\* the clock may move on by a millisecond while the call runs
JoinTransferSession(transferCode, elapsed) ==
    /\ elapsed > 0 => ticks < MaxStoreTicks
    /\ now' = now + elapsed
    /\ ticks' = ticks + elapsed
    /\ CommitMemory(joinTransferSession(Memory, transferCode, elapsed), "join",
                    Normalized(transferCode))

PruneExpiredSessions ==
    /\ UNCHANGED <<now, ticks>>
    /\ CommitMemory(pruneExpiredSessions(Memory), "prune", "")

StoreTick(step, max) ==
    /\ ticks < max
    /\ now' = now + step
    /\ ticks' = ticks + 1
    /\ UNCHANGED <<relayVars, storeVars, clientVars>>

\* the clock steps of the store model: a millisecond, or just under the
\* shortest time a session lives
StoreSteps == {1, MIN_TTL_MINUTES * 60 * 1000 - 1}

NextMemory ==
    \/ \E ttlMinutes \in TtlInputs : \E c \in Codes : CreateTransferSession(ttlMinutes, c)
    \/ \E c \in TypedCodes : \E elapsed \in {0, 1} : JoinTransferSession(c, elapsed)
    \/ PruneExpiredSessions
    \/ \E step \in StoreSteps : StoreTick(step, MaxStoreTicks)

SpecMemory == Init /\ [][NextMemory]_vars

CommitSupabase ==
    UNCHANGED <<relayVars, memoryVars, ticks, now, clientVars>>

\* the requests that have failed so far
Failures ==
    Cardinality({j \in JoinCallers : joining[j].failed}) + creating.failed

\* createTransferSessionInSupabase up to its first request
CreateStart(ttlMinutes) ==
    /\ creating.pc \in {"idle", "done"}
    /\ Len(table) < Cardinality(Codes)
    /\ \A j \in JoinCallers : joining[j].pc = "idle"
    /\ creating' = [pc |-> "post", attempt |-> 0,
                    expiresAt |-> ToISOString(now + readTtlMinutes(ttlMinutes) * 60 * 1000),
                    failed |-> creating.failed, result |-> NoResult]
    /\ UNCHANGED <<table, joining, minted>>
    /\ CommitSupabase

\* one turn of the retry loop: the POST of a generated code and what follows
\* its answer; the table refuses a code it holds already (409)
CreatePost(transferCode, net) ==
    /\ creating.pc = "post"
    /\ LET drawn == Cardinality(JoinCallers) + Len(table) * MAX_CREATE_RETRIES
                        + creating.attempt + 1
           row == [transfer_id |-> drawn, transfer_code |-> transferCode,
                   sender_token |-> drawn, receiver_token |-> NoToken,
                   state |-> "created", expires_at |-> creating.expiresAt]
           conflict == HasRow(table, transferCode)
           stored == net # "error" /\ ~conflict
       IN  /\ net # "ok" => Failures < MaxFailures
           /\ table' = IF stored THEN Append(table, row) ELSE table
           /\ creating' =
                IF net = "ok" /\ ~conflict
                THEN [creating EXCEPT !.pc = "done", !.expiresAt = ToISOString(0),
                                      !.result = Success(row.transfer_id, NoToken)]
                ELSE IF net = "ok" /\ conflict /\ creating.attempt + 1 < MAX_CREATE_RETRIES
                THEN [creating EXCEPT !.attempt = @ + 1]
                ELSE [creating EXCEPT !.pc = "done", !.attempt = @ + 1,
                                      !.expiresAt = ToISOString(0),
                                      !.failed = IF net # "ok" THEN @ + 1 ELSE @,
                                      !.result = Failure("unknown")]
    /\ UNCHANGED <<joining, minted>>
    /\ CommitSupabase

\* joinTransferSessionInSupabase is called; the callers are alike, so they
\* call in the order of their numbers
JoinStart(j, transferCode) ==
    /\ joining[j].pc = "idle"
    /\ \A k \in JoinCallers : k < j => joining[k].pc # "idle"
    /\ creating.pc # "post"
    /\ joining' = [joining EXCEPT ![j] =
                      [IdleJoin EXCEPT !.pc = "load", !.transferCode = transferCode,
                                       !.existed = HasRow(table, transferCode)]]
    /\ UNCHANGED <<table, creating, minted>>
    /\ CommitSupabase

Finish(call, result) == [call EXCEPT !.pc = "done", !.result = result]
Failed(call) == [Finish(call, Failure("unknown")) EXCEPT !.failed = TRUE]

\* the first loadSessionByCode is answered: lines 358-402
JoinLoad(j, net) ==
    /\ joining[j].pc = "load"
    /\ net # "ok" => Failures < MaxFailures
    /\ LET call == joining[j]
           row == loadSessionByCode(table, call.transferCode)
           verdict == rowVerdict(row, now)
       IN  joining' = [joining EXCEPT ![j] =
                IF net # "ok" THEN Failed(call)
                ELSE IF verdict # "joinable" THEN Finish(call, Failure(verdict))
                ELSE [call EXCEPT !.pc = "patch", !.receiverToken = j,
                                  !.nowIso = ToISOString(now)]]
    /\ UNCHANGED <<table, creating, minted>>
    /\ CommitSupabase

\* the PATCH is carried out and answered: lines 404-427
JoinPatch(j, net) ==
    /\ joining[j].pc = "patch"
    /\ net # "ok" => Failures < MaxFailures
    /\ LET call == joining[j]
           hit == \E i \in 1..Len(table) :
                      patchMatches(table[i], call.transferCode, call.nowIso)
       IN  /\ table' = IF net = "error" THEN table
                       ELSE patched(table, call.transferCode, call.nowIso, call.receiverToken)
           /\ joining' = [joining EXCEPT ![j] =
                IF net # "ok" THEN Failed(call)
                ELSE IF hit
                THEN Finish(call, Success(loadSessionByCode(table, call.transferCode).transfer_id,
                                          call.receiverToken))
                ELSE [call EXCEPT !.pc = "reload"]]
    /\ UNCHANGED <<creating, minted>>
    /\ CommitSupabase

\* the second loadSessionByCode is answered: lines 429-468
JoinReload(j, net) ==
    /\ joining[j].pc = "reload"
    /\ net # "ok" => Failures < MaxFailures
    /\ LET call == joining[j]
           verdict == rowVerdict(loadSessionByCode(table, call.transferCode), now)
       IN  joining' = [joining EXCEPT ![j] =
                IF net # "ok" THEN Failed(call)
                ELSE IF verdict # "joinable" THEN Finish(call, Failure(verdict))
                ELSE Finish(call, Failure("unknown"))]
    /\ UNCHANGED <<table, creating, minted>>
    /\ CommitSupabase

SupabaseStep == MIN_TTL_MINUTES * 60 * 1000

\* the codes the callers join with: the first caller any code, the others the
\* code of the session all callers compete for
JoinCodes(j) == IF j = 1 THEN Codes ELSE {"AB12-CD34"}

NextSupabase ==
    \/ \E ttlMinutes \in {Ttl(105)} : CreateStart(ttlMinutes)
    \/ \E c \in Codes : \E net \in Net : CreatePost(c, net)
    \/ \E j \in JoinCallers : \E c \in JoinCodes(j) : JoinStart(j, c)
    \/ \E j \in JoinCallers : \E net \in {"ok", "error"} : JoinLoad(j, net)
    \/ \E j \in JoinCallers : \E net \in Net : JoinPatch(j, net)
    \/ \E j \in JoinCallers : \E net \in {"ok", "error"} : JoinReload(j, net)
    \/ StoreTick(SupabaseStep, MaxSupabaseTicks)

SpecSupabase == Init /\ [][NextSupabase]_vars

----------------------------------------------------------------------------
(* The orchestrator as a state machine: user actions, socket, timer,         *)
(* peer-connection and data-channel events of one browser.                   *)

\* the record a handler starts from: signals collects what it sends
Client(b) == [orchestrator[b] EXCEPT !.signals = <<>>]

Lagging(C) == C.statusRef # C.status

\* Work the browser has queued for the component and runs soon: the effect
\* that copies status to statusRef, the continuation of a promise of a closed
\* connection, the 'close' of a channel the component closed, and the transfer
\* task of a closed channel.
Urgent(C) ==
    \/ Lagging(C)
    \/ "doomed" \in {C.offerTask.state, C.answerTask.state, C.acceptTask.state}
    \/ C.stale # {}
    \/ C.loop.pc = "sending" /\ C.loop.doomed

CommitClient(b, C) ==
    /\ orchestrator' = [orchestrator EXCEPT ![b] = C]
    /\ UNCHANGED <<now, ticks, relayVars, storeVars>>

\* At most MaxLag handlers of other events run while such work is queued;
\* lag counts them.
Timely(b) == Urgent(orchestrator[b]) => orchestrator[b].lag < MaxLag

Handled(b, C) ==
    /\ Timely(b)
    /\ CommitClient(b, [C EXCEPT !.lag = IF ~Urgent(C) THEN 0
                                       ELSE IF Urgent(orchestrator[b]) THEN @ + 1
                                       ELSE 0])

Event_(b, C) == Handled(b, C) /\ UNCHANGED <<clicks, delivered, faults>>

\* a piece of the queued work has run
Flush(b, C) ==
    /\ CommitClient(b, [C EXCEPT !.lag = IF Urgent(C) THEN @ ELSE 0])
    /\ UNCHANGED <<clicks, delivered, faults>>

\* an event that reports a failure of the network, of the peer or of the
\* browser's WebRTC stack
Fault(b, C) ==
    /\ faults < MaxFaults
    /\ faults' = faults + 1
    /\ Handled(b, C)
    /\ UNCHANGED <<clicks, delivered>>

Settled(b, ok, C) == IF ok THEN Event_(b, C) ELSE Fault(b, C)

Click(b, C) ==
    /\ clicks < MaxClicks
    /\ clicks' = clicks + 1
    /\ Handled(b, C)
    /\ UNCHANGED <<delivered, faults>>

HasFreeSocket(C) == \E i \in SocketIds : C.sockets[i].state = "unused"

\* the effect that copies status to statusRef after a render
StatusEffect(b) ==
    /\ Lagging(orchestrator[b])
    /\ Flush(b, [orchestrator[b] EXCEPT !.statusRef = orchestrator[b].status])

\* the response of /api/transfer/config, which is requested at mount and is
\* taken to arrive before the user acts
ConfigLoaded(b, maxUploadBytes) ==
    /\ ~orchestrator[b].configured
    /\ clicks = 0
    /\ Event_(b, [Client(b) EXCEPT !.configured = TRUE, !.maxUploadBytes = maxUploadBytes])

HandleFileSelect(b, file) ==
    Click(b, [setStatus(Client(b), "idle") EXCEPT !.selectedFile = file, !.error = FALSE])

resetForRole(C, nextRole) ==
    LET C1 == closePeerConnection(closeSignalingSocket(C))
        C2 == [setStatus(C1, "idle") EXCEPT !.credsRef = NoCreds, !.role = nextRole,
                                            !.error = FALSE]
    IN  resetTransferState(C2)

ResetForRole(b, nextRole) == Click(b, resetForRole(Client(b), nextRole))

\* the cleanup of the component's effect, which runs when it is unmounted
cleanup(C) == clearReconnectTimer(closePeerConnection(closeSignalingSocket(C)))

canCreate(C) == C.role = "sender" /\ C.selectedFile # NoFile /\ C.status # "creating-session"
canJoin(C) == C.role = "receiver" /\ C.status # "joining-session"

\* handleCreateTransfer up to its fetch.  The user is taken to start a session
\* only when the component holds none: a live one is abandoned by a role
\* switch first.
HandleCreateTransfer(b) ==
    /\ canCreate(orchestrator[b])
    /\ orchestrator[b].request = NoRequest
    /\ orchestrator[b].credsRef = NoCreds
    /\ Click(b, [setStatus(Client(b), "creating-session") EXCEPT
                     !.error = FALSE,
                     !.request = [kind |-> "create", closure |-> Closure(Client(b))]])

\* handleJoinTransfer up to its fetch
HandleJoinTransfer(b) ==
    /\ canJoin(orchestrator[b])
    /\ orchestrator[b].request = NoRequest
    /\ orchestrator[b].credsRef = NoCreds
    /\ Click(b, [setStatus(Client(b), "joining-session") EXCEPT
                     !.error = FALSE,
                     !.request = [kind |-> "join", closure |-> Closure(Client(b))]])

\* the rest of handleCreateTransfer and of handleJoinTransfer
Response(b, ok) ==
    LET C == Client(b)
        request == C.request
        C1 == [C EXCEPT !.request = NoRequest]
    IN  /\ request # NoRequest
        /\ ok => HasFreeSocket(C)
        /\ Settled(b, ok,
              IF ~ok THEN [setStatus(C1, "failed") EXCEPT !.error = TRUE]
              ELSE IF request.kind = "create"
              THEN connectSignaling(setStatus(C1, "waiting-peer"), Creds("sender"), FALSE,
                                    request.closure)
              ELSE connectSignaling(setStatus(C1, "connecting"), Creds("receiver"), FALSE,
                                    request.closure))

\* the button "Retry live connection"
Retry(b) ==
    LET C == Client(b)
    IN  /\ C.error /\ C.status = "failed" /\ C.credsRef # NoCreds
        /\ HasFreeSocket(C)
        /\ Click(b, connectSignaling(C, C.credsRef, FALSE, Closure(C)))

\* ws.onopen
SocketOpen(b, ws) ==
    /\ orchestrator[b].sockets[ws].state = "connecting"
    /\ Event_(b, onSocketOpen(Client(b), ws))

ServerMessages ==
    {[type |-> t, peerPresent |-> FALSE, signal |-> Null] :
        t \in {"error", "joined-room", "peer-joined", "peer-left"}}
    \cup {[type |-> "joined-room", peerPresent |-> TRUE, signal |-> Null]}
    \cup {[type |-> "relay", peerPresent |-> FALSE, signal |-> s] :
        s \in {"ready", "offer", "answer", "ice-candidate", "cancel", "error"}}

onSocketMessage(C, socket, message) ==
    LET cl == socket.closure
    IN  CASE message.type = "error" -> handleLiveFailure(C, cl)
          [] message.type = "joined-room" ->
                IF message.peerPresent
                THEN sendReadySignal(startConnectionTimeout(setStatus(C, "connecting"), cl))
                ELSE setStatus(C, IF socket.creds.role = "sender" THEN "waiting-peer"
                                  ELSE "connecting")
          [] message.type = "peer-joined" ->
                sendReadySignal(startConnectionTimeout(
                    [setStatus(C, "connecting") EXCEPT !.error = FALSE], cl))
          [] message.type = "peer-left" ->
                IF socket.creds.role = "sender"
                THEN closePeerConnection([setStatus(C, "waiting-peer") EXCEPT !.error = TRUE])
                ELSE handleLiveFailure(C, cl)
          [] OTHER -> handleRelaySignal(C, cl, message.signal)

Disturbance(message) ==
    \/ message.type \in {"error", "peer-left"}
    \/ message.type = "relay" /\ message.signal \in {"cancel", "error"}

\* What the relay and the peer behind it send on a socket (signaling.cjs
\* attachPeer, detachPeer, handleRelay; the peer runs this component): one
\* joined-room per join, followed by peer-joined if the peer is there; signals
\* of the peer only while it is in the room; an offer only from a sender, an
\* answer only to an offer.  One description is handled at a time, and
\* candidates are counted up to MaxCandidates.
Deliverable(C, socket, message) ==
    CASE message.type = "error" -> TRUE
      [] message.type = "joined-room" -> socket.peer = "unjoined"
      [] message.type = "peer-joined" -> socket.peer \in {"absent", "announced"}
      [] message.type = "peer-left" -> socket.peer = "present"
      [] OTHER ->
            /\ socket.peer = "present"
            /\ CASE message.signal = "offer" ->
                        socket.creds.role = "receiver" /\ C.answerTask.state = "none"
                 [] message.signal = "answer" ->
                        socket.offered /\ C.acceptTask.state = "none"
                 [] message.signal = "ice-candidate" ->
                        C.pcRef.queued + C.pcRef.applied < MaxCandidates
                 [] message.signal = "ready" -> C.offerTask.state = "none"
                 [] OTHER -> TRUE

\* the far side of the socket after the message
farSide(socket, message) ==
    CASE message.type = "joined-room" ->
            [socket EXCEPT !.peer = IF message.peerPresent THEN "announced" ELSE "absent"]
      [] message.type = "peer-joined" -> [socket EXCEPT !.peer = "present"]
      [] message.type = "peer-left" -> [socket EXCEPT !.peer = "absent", !.offered = FALSE]
      [] message.type = "relay" /\ message.signal = "answer" ->
            [socket EXCEPT !.offered = FALSE]
      [] OTHER -> socket

\* ws.onmessage
SocketMessage(b, ws, message) ==
    LET C == Client(b)
    IN  /\ C.sockets[ws].state = "open"
        /\ Deliverable(C, C.sockets[ws], message)
        /\ Settled(b, ~Disturbance(message),
                   onSocketMessage([C EXCEPT !.sockets[ws] = farSide(@, message)],
                                   C.sockets[ws], message))

\* ws.onclose: of a socket the other side or the network closed, or of one the
\* component closed itself.  Nothing refers to a closed socket any more, so
\* its slot is free again.
SocketClose(b, ws) ==
    LET C == Client(b)
        socket == C.sockets[ws]
        C1 == [C EXCEPT !.sockets[ws] = NoSocket, !.wsRef = NoWs]
    IN  /\ socket.state \in {"open", "closing", "failing"}
        /\ Settled(b, socket.state # "open",
                   IF ~C1.manualSocketCloseRef /\ C1.statusRef # "completed"
                   THEN scheduleReconnect(C1, socket.closure)
                   ELSE C1)

\* ws.onerror: the connection failed; 'close' follows
SocketError(b, ws) ==
    LET C == Client(b)
        socket == C.sockets[ws]
    IN  /\ socket.state \in {"connecting", "open", "failing"}
        /\ Settled(b, socket.state = "failing",
                   handleLiveFailure([C EXCEPT !.sockets[ws].state = "closing"],
                                     socket.closure))

\* the 15 s watchdog of startConnectionTimeout
ConnectTimeout(b) ==
    LET C == Client(b)
    IN  /\ C.connectTimeoutRef.armed
        /\ Fault(b, handleLiveFailure([C EXCEPT !.connectTimeoutRef.armed = FALSE],
                                      C.connectTimeoutRef.closure))

\* the timer of scheduleReconnect
ReconnectTimer(b) ==
    LET C == Client(b)
        timer == C.reconnectTimerRef
    IN  /\ timer # NoTimer
        /\ HasFreeSocket(C)
        /\ Event_(b, connectSignaling(
                        [C EXCEPT !.reconnectAttemptRef = timer.nextAttempt,
                                  !.reconnectTimerRef = NoTimer],
                        timer.creds, TRUE, timer.closure))

\* The continuation of an await on the peer connection.  A promise of a
\* connection that has been closed in the meantime is rejected or is never
\* settled, depending on the browser.
Continued(b, task, ok, C, failed) ==
    IF task.state = "doomed" THEN Flush(b, IF ok THEN C ELSE failed)
    ELSE Settled(b, ok, IF ok THEN C ELSE failed)

\* the rest of startSenderOffer: createOffer and setLocalDescription have
\* settled
OfferCreated(b, ok) ==
    LET C == Client(b)
        task == C.offerTask
        C1 == [C EXCEPT !.offerTask = NoTask]
    IN  /\ task.state # "none"
        /\ Continued(b, task, ok,
                     IF task.state = "doomed" THEN C1
                     ELSE offerMade(C1),
                     handleLiveFailure(C1, task.closure))

\* the rest of the offer branch of handleRelaySignal
AnswerCreated(b, ok) ==
    LET C == Client(b)
        task == C.answerTask
        C1 == [C EXCEPT !.answerTask = NoTask]
    IN  /\ task.state # "none"
        /\ Continued(b, task, ok,
                     IF task.state = "doomed" THEN C1
                     ELSE answerMade(C1),
                     handleLiveFailure(C1, task.closure))

\* the rest of the answer branch of handleRelaySignal: an answer is accepted
\* only by a connection that has made an offer
AnswerAccepted(b, ok) ==
    LET C == Client(b)
        task == C.acceptTask
        C1 == [C EXCEPT !.acceptTask = NoTask]
    IN  /\ task.state # "none"
        /\ ok => task.state = "doomed" \/ C.pcRef.local
        /\ Continued(b, task, ok,
                     IF task.state = "doomed" THEN C1 ELSE remoteSet(C1),
                     handleLiveFailure(C1, task.closure))

Negotiated(C) == C.pcRef # NoPc /\ C.pcRef.remote = "set" /\ C.pcRef.local

\* connection.onconnectionstatechange
ConnectionStateChange(b, nextState) ==
    LET C == Client(b)
    IN  /\ C.pcRef # NoPc
        /\ nextState = "connected" => Negotiated(C)
        /\ Settled(b, nextState = "connected",
                   IF nextState = "connected"
                   THEN LET C1 == clearConnectTimeout(C)
                        IN  IF C1.statusRef \notin {"transferring", "completed"}
                            THEN setStatus(C1, "connected")
                            ELSE C1
                   ELSE handleLiveFailure(C, C.pcRef.closure))

\* connection.ondatachannel
OnDataChannel(b) ==
    LET C == Client(b)
    IN  /\ Negotiated(C)
        /\ C.credsRef.role = "receiver"
        /\ C.dataChannelRef = NoChannel
        /\ Event_(b, [C EXCEPT !.dataChannelRef =
                          [NoChannel EXCEPT !.readyState = "connecting",
                                            !.closure = C.pcRef.closure]])

ChannelOpen(b) ==
    LET C == Client(b)
    IN  /\ Negotiated(C)
        /\ C.dataChannelRef.readyState = "connecting"
        /\ C.loop.pc # "sending"
        /\ Event_(b, onChannelOpen(C, C.dataChannelRef.closure))

\* channel.onclose of a channel the other side or the transport closed
ChannelClose(b) ==
    LET C == Client(b)
        C1 == [C EXCEPT !.dataChannelRef.readyState = "closed",
                        !.loop = IF @.pc = "sending" THEN [@ EXCEPT !.doomed = TRUE] ELSE @]
    IN  /\ C.dataChannelRef.readyState \in {"connecting", "open"}
        /\ Fault(b, IF C1.statusRef # "completed"
                    THEN handleLiveFailure(C1, C.dataChannelRef.closure)
                    ELSE C1)

\* channel.onclose of a channel closePeerConnection closed, in a browser that
\* fires it, or its absence in one that does not
StaleChannelClose(b, cl, fires) ==
    LET C == Client(b)
        C1 == [C EXCEPT !.stale = @ \ {cl}]
    IN  /\ cl \in C.stale
        /\ Flush(b, IF fires /\ C1.statusRef # "completed" THEN handleLiveFailure(C1, cl)
                    ELSE C1)

\* channel.onerror
ChannelError(b) ==
    LET C == Client(b)
    IN  /\ C.dataChannelRef.readyState \in {"connecting", "open"}
        /\ Fault(b, handleLiveFailure(C, C.dataChannelRef.closure))

SendChunk(b) ==
    /\ orchestrator[b].loop.pc = "sending"
    /\ IF orchestrator[b].loop.doomed THEN Flush(b, sendChunk(Client(b)))
       ELSE Event_(b, sendChunk(Client(b)))

\* the rest of handleIncomingDataMessage for a Blob: the read has finished
ReadDone(b, i) ==
    LET C == Client(b)
    IN  /\ i \in 1..Len(C.reading)
        /\ Event_(b, pushChunk([C EXCEPT !.reading =
                                    SubSeq(@, 1, i - 1) \o SubSeq(@, i + 1, Len(@))],
                               C.reading[i]))

\* channel.onmessage
Receive(b, data) ==
    LET C == Client(b)
    IN  /\ C.dataChannelRef.readyState = "open"
        /\ Handled(b, handleIncomingDataMessage(C, C.dataChannelRef.closure, data))

\* a message from a peer that is not modelled: a sender sends meta, then the
\* file, then done, and either peer may send cancel at any point
ChannelMessage(b, data) ==
    /\ LET incoming == orchestrator[b].incomingRef
       IN  CASE data.kind = "meta" -> incoming = NoIncoming
             [] data.kind = "binary" ->
                    incoming # NoIncoming /\ incoming.received < incoming.size
             [] data.kind = "done" ->
                    incoming # NoIncoming /\ incoming.received = incoming.size
             [] OTHER -> TRUE
    /\ orchestrator[b].credsRef.role = "receiver" \/ data = CancelMessage
    /\ Receive(b, data)
    /\ IF data = CancelMessage THEN faults < MaxFaults /\ faults' = faults + 1
       ELSE UNCHANGED faults
    /\ UNCHANGED <<clicks, delivered>>

\* the ordered, reliable channel hands the receiver the sender's next message
Deliver(from, to) ==
    /\ delivered < Len(orchestrator[from].dataChannelRef.sent)
    /\ Receive(to, orchestrator[from].dataChannelRef.sent[delivered + 1])
    /\ delivered' = delivered + 1
    /\ UNCHANGED <<clicks, faults>>

PeerMessages == {Meta(CHUNK_SIZE), Binary(slice(CHUNK_SIZE, 0, CHUNK_SIZE)), Done, CancelMessage}

Local == "A"

NextClient ==
    \/ StatusEffect(Local)
    \/ \E m \in ConfiguredCeilings : ConfigLoaded(Local, m)
    \/ \E f \in ClientFiles : HandleFileSelect(Local, f)
    \/ \E r \in Roles : ResetForRole(Local, r)
    \/ HandleCreateTransfer(Local)
    \/ HandleJoinTransfer(Local)
    \/ \E ok \in BOOLEAN : Response(Local, ok)
    \/ Retry(Local)
    \/ \E ws \in SocketIds : SocketOpen(Local, ws)
    \/ \E ws \in SocketIds : \E m \in ServerMessages : SocketMessage(Local, ws, m)
    \/ \E ws \in SocketIds : SocketClose(Local, ws)
    \/ \E ws \in SocketIds : SocketError(Local, ws)
    \/ ConnectTimeout(Local)
    \/ ReconnectTimer(Local)
    \/ \E ok \in BOOLEAN : OfferCreated(Local, ok)
    \/ \E ok \in BOOLEAN : AnswerCreated(Local, ok)
    \/ \E ok \in BOOLEAN : AnswerAccepted(Local, ok)
    \/ \E s \in {"connected", "failed"} : ConnectionStateChange(Local, s)
    \/ OnDataChannel(Local)
    \/ ChannelOpen(Local)
    \/ ChannelClose(Local)
    \/ ChannelError(Local)
    \/ \E cl \in orchestrator[Local].stale : \E fires \in BOOLEAN :
          StaleChannelClose(Local, cl, fires)
    \/ SendChunk(Local)
    \/ \E data \in PeerMessages : ChannelMessage(Local, data)

SpecClient == Init /\ [][NextClient]_vars

----------------------------------------------------------------------------
(* A transfer: the sender A and the receiver B have negotiated their         *)
(* connection, and the data channel between them is about to open.           *)

Sender == "A"
Receiver == "B"

\* the browser's RTCDataChannel.binaryType, which the component leaves as the
\* browser sets it
BinaryTypes == {"arraybuffer", "blob"}

Negotiating(role, file) ==
    LET cl == [role |-> role, selectedFile |-> file,
               maxUploadBytes |-> DEFAULT_MAX_UPLOAD_BYTES]
    IN  [InitialClient EXCEPT
            !.role = role, !.selectedFile = file, !.configured = TRUE,
            !.status = "connecting", !.statusRef = "connecting",
            !.credsRef = Creds(role),
            !.sockets[1] = [NoSocket EXCEPT !.state = "open", !.closure = cl,
                                            !.creds = Creds(role), !.peer = "present"],
            !.wsRef = 1,
            !.pcRef = [NoPc EXCEPT !.remote = "set", !.local = TRUE, !.closure = cl],
            !.dataChannelRef = [NoChannel EXCEPT !.readyState = "connecting", !.closure = cl],
            !.connectTimeoutRef = [armed |-> TRUE, closure |-> cl],
            !.offerSentRef = (role = "sender")]

TransferInit ==
    /\ \E file \in FileSizes : \E binaryType \in BinaryTypes :
          orchestrator =
              [b \in Browsers |->
                  IF b = Sender THEN Negotiating("sender", file)
                  ELSE [Negotiating("receiver", NoFile) EXCEPT !.binaryType = binaryType]]
    /\ clicks = 0
    /\ faults = 0
    /\ delivered = 0

InitTransfer == RelayInit /\ StoreInit /\ TransferInit

NextTransfer ==
    \/ \E b \in Browsers : StatusEffect(b)
    \/ \E b \in Browsers : ChannelOpen(b)
    \/ SendChunk(Sender)
    \/ Deliver(Sender, Receiver)
    \/ \E i \in 1..Len(orchestrator[Receiver].reading) : ReadDone(Receiver, i)
    \/ \E b \in Browsers : ChannelClose(b)

SpecTransfer == InitTransfer /\ [][NextTransfer]_vars

----------------------------------------------------------------------------
(* The handshake: the sender A and the receiver B hold a session each (the   *)
(* create and join requests have been answered) and have started to connect  *)
(* to the relay, A as connection c1 and B as connection c3.  signals is what *)
(* a browser has sent on its socket and the relay has not handled yet, inbox *)
(* what the relay has sent to it and its socket has not delivered yet; both  *)
(* keep their order.  Nothing fails and the 15 s watchdog does not expire.   *)

ConnOf(b) == IF b = Sender THEN "c1" ELSE "c3"
RoleOf(b) == IF b = Sender THEN "sender" ELSE "receiver"
TokenOf(role) == IF role = "sender" THEN K1 ELSE K2

\* the signal object sendSignal is given, by its type
SignalOf(type) ==
    CASE type = "ready" -> WithPayload(Signal("ready"))
      [] type = "offer" -> Offer(SmallPad)
      [] type = "answer" -> Answer(SmallPad)
      [] type = "ice-candidate" -> Ice(SmallPad)
      [] OTHER -> Signal(type)

\* JSON.stringify(joinMsg) of ws.onopen and JSON.stringify(msg) of sendSignal
FrameOf(creds, type) ==
    IF type = "join-room" THEN Join(T1, creds.role, TokenOf(creds.role))
    ELSE Frame("relay", T1, creds.role, TokenOf(creds.role), SignalOf(type), SmallPad)

\* JSON.parse of a frame of the relay: the fields ws.onmessage reads
Parsed(payload) ==
    [type |-> payload.type,
     peerPresent |-> IF payload.type = "joined-room" THEN payload.peerPresent ELSE FALSE,
     signal |-> IF payload.type = "relay" THEN payload.signal.type ELSE Null]

\* the frames a handler of the relay has sent to one connection
Inbound(sends, ws) ==
    LET mine == SelectSeq(sends, LAMBDA e : e.op = "send" /\ e.to = ws)
    IN  [i \in 1..Len(mine) |-> Parsed(mine[i].payload)]

Joining(role, file) ==
    LET C == [InitialClient EXCEPT !.role = role, !.selectedFile = file, !.configured = TRUE]
        status == IF role = "sender" THEN "waiting-peer" ELSE "connecting"
    IN  connectSignaling(setStatus(C, status), Creds(role), FALSE, Closure(C))

HandshakeInit ==
    /\ RelayInit
    /\ StoreInit
    /\ \E file \in ClientFiles :
          orchestrator = [b \in Browsers |->
                             Joining(RoleOf(b), IF b = Sender THEN file ELSE NoFile)]
    /\ clicks = 0
    /\ faults = 0
    /\ delivered = 0

Browser(b, C) ==
    /\ orchestrator' = [orchestrator EXCEPT ![b] = C]
    /\ UNCHANGED <<now, ticks, relayVars, storeVars, delivered, clicks, faults>>

\* wss.on('connection') for the socket a browser is opening
Accept(b) ==
    /\ orchestrator[b].sockets[orchestrator[b].wsRef].state = "connecting"
    /\ Connect(ConnOf(b))

Opened(b) ==
    LET C == orchestrator[b]
    IN  /\ C.sockets[C.wsRef].state = "connecting"
        /\ readyState[ConnOf(b)] = "OPEN"
        /\ Browser(b, onSocketOpen(C, C.wsRef))

\* ws.on('message') of the relay for the next frame of a browser; what the
\* handler sends goes to the inboxes
RelayReceives(b) ==
    LET C == orchestrator[b]
    IN  /\ C.signals # <<>>
        /\ CanReceive(ConnOf(b))
        /\ \E S \in {onMessage(Relay, ConnOf(b), FrameOf(C.credsRef, Head(C.signals)))} :
              /\ CommitRelay(S)
              /\ orchestrator' =
                    [x \in Browsers |->
                        [orchestrator[x] EXCEPT
                            !.inbox = @ \o Inbound(S.trace, ConnOf(x)),
                            !.signals = IF x = b THEN Tail(@) ELSE @]]
        /\ event' = Event("message", ConnOf(b), NoBinding, 0)
        /\ UNCHANGED <<now, ticks, errored, storeVars, delivered, clicks, faults>>

\* ws.onmessage of the browser for the next frame of the relay
Hears(b) ==
    LET C == orchestrator[b]
    IN  /\ C.inbox # <<>>
        /\ C.sockets[C.wsRef].state = "open"
        /\ Browser(b, onSocketMessage([C EXCEPT !.inbox = Tail(@)], C.sockets[C.wsRef],
                                       Head(C.inbox)))

OfferDone(b) ==
    /\ orchestrator[b].offerTask.state = "pending"
    /\ Browser(b, offerMade([orchestrator[b] EXCEPT !.offerTask = NoTask]))

AnswerDone(b) ==
    /\ orchestrator[b].answerTask.state = "pending"
    /\ Browser(b, answerMade([orchestrator[b] EXCEPT !.answerTask = NoTask]))

AcceptDone(b) ==
    /\ orchestrator[b].acceptTask.state = "pending"
    /\ Browser(b, remoteSet([orchestrator[b] EXCEPT !.acceptTask = NoTask]))

\* the connection has a local description and gathers candidates
Candidate(b) ==
    LET C == orchestrator[b]
    IN  /\ C.pcRef # NoPc
        /\ C.pcRef.local
        /\ C.pcRef.gathered < MaxCandidates
        /\ Browser(b, onIceCandidate(C))

NextHandshake ==
    \/ \E b \in Browsers : Accept(b)
    \/ \E b \in Browsers : Opened(b)
    \/ \E b \in Browsers : RelayReceives(b)
    \/ \E b \in Browsers : Hears(b)
    \/ \E b \in Browsers : StatusEffect(b)
    \/ \E b \in Browsers : OfferDone(b)
    \/ \E b \in Browsers : AnswerDone(b)
    \/ \E b \in Browsers : AcceptDone(b)
    \/ \E b \in Browsers : Candidate(b)

\* the relay and the browsers run the events that are queued for them
SpecHandshake == HandshakeInit /\ [][NextHandshake]_vars /\ WF_vars(NextHandshake)

----------------------------------------------------------------------------
(* Properties of the relay *)

Sent(to, payload) == [op |-> "send", to |-> to, payload |-> payload]
Closed(to, code, reason) == [op |-> "close", to |-> to, code |-> code, reason |-> reason]

\* messages of ws that are at most one window old
WindowCount(ws) ==
    Cardinality({i \in 1..Len(messageTimes[ws]) :
                    now - messageTimes[ws][i] <= RATE_WINDOW_MS})
UnderCap(ws) == WindowCount(ws) < MAX_MESSAGES_PER_10S

Slot(rs, id, role) == IF HasRoom(rs, id) THEN GetRoom(rs, id)[role] ELSE NoPeer

\* C3 as amended: a message that finds 120 messages of its connection at most
\* 10 s old is answered rate-limited and the connection is closed; a message
\* that finds fewer passes the rate check and is counted, so the first 120 pass
\* and later ones pass again once the earlier ones are over 10 s old; a message
\* on a connection the relay has closed gets no answer and does not reopen it.
C3_RateLimit ==
    \A ws \in Conns :
        /\ WindowCount(ws) <= MAX_MESSAGES_PER_10S
        /\ \A raw \in RateFrames :
            CanReceive(ws) =>
                LET R == onMessage(Relay, ws, raw)
                IN  IF UnderCap(ws)
                    THEN /\ R.readyState[ws] = readyState[ws]
                         /\ readyState[ws] = "CLOSING" => R.trace = <<>>
                         /\ Len(R.messageTimes[ws]) = WindowCount(ws) + 1
                         /\ \A i \in 1..Len(R.trace) :
                                R.trace[i] # Sent(ws, ErrorFrame("rate-limited"))
                    ELSE /\ R.readyState[ws] # "OPEN"
                         /\ Len(R.messageTimes[ws]) = WindowCount(ws)
                         /\ readyState[ws] = "OPEN" =>
                                R.trace = <<Sent(ws, ErrorFrame("rate-limited")),
                                            Closed(ws, 1008, "rate-limited")>>

\* the 121st message of a window has been rejected and its connection closed
C3_Witness ==
    \E ws \in Conns :
        /\ trace = <<Sent(ws, ErrorFrame("rate-limited")), Closed(ws, 1008, "rate-limited")>>
        /\ Len(messageTimes[ws]) = MAX_MESSAGES_PER_10S
        /\ readyState[ws] = "CLOSING"

\* C3 as stated: the rate limit of C3_RateLimit, and a connection that has
\* used up a window can send again once that window has elapsed.
C3_Original ==
    /\ C3_RateLimit
    /\ \A ws \in Conns :
        (Len(messageTimes[ws]) = MAX_MESSAGES_PER_10S /\ WindowCount(ws) = 0)
            => readyState[ws] = "OPEN"

\* the payload constraints of the relay's signal table
MeetsConstraint(sig) ==
    /\ sig.isObject
    /\ CASE sig.type = "ready" -> TRUE
         [] sig.type \in {"offer", "answer"} ->
                sig.hasPayload /\ sig.sdp >= 0 /\ sig.sdp <= 200000
         [] sig.type = "ice-candidate" ->
                sig.hasPayload /\ sig.candidate >= 0 /\ sig.candidate <= 4000
         [] sig.type = "cancel" -> TRUE
         [] sig.type = "error" ->
                sig.hasPayload /\ sig.code >= 0 /\ sig.message >= 0 /\ sig.message <= 500
         [] OTHER -> FALSE

\* C4: a relay frame of an open, joined connection, with the credentials of
\* its join, whose signal violates the constraint of its tag is answered
\* invalid-signal and nothing is forwarded.
C4_InvalidSignal ==
    [][\A ws \in Conns : \A sig \in Signals :
        (readyState[ws] = "OPEN" /\ wsPeer[ws] # NoBinding /\ UnderCap(ws)
            /\ ~MeetsConstraint(sig) /\ OnMessage(ws, Relayed(wsPeer[ws], sig)))
        => /\ trace' = <<Sent(ws, ErrorFrame("invalid-signal"))>>
           /\ rooms' = rooms]_vars

\* C5: a frame longer than the ceiling is answered message-too-large, its
\* content is not acted on, and the connection that sent it is closed.
C5_TooLargeIsTerminal ==
    [][\A ws \in Conns : \A raw \in Frames(ws) :
        (readyState[ws] = "OPEN" /\ UnderCap(ws) /\ ByteLength(raw) > MAX_MESSAGE_BYTES
            /\ OnMessage(ws, raw))
        => /\ rooms' = rooms
           /\ wsPeer' = wsPeer
           /\ trace' = <<Sent(ws, ErrorFrame("message-too-large")),
                         Closed(ws, 1008, "message-too-large")>>
           /\ readyState'[ws] # "OPEN"]_vars

AllJoins == {Join(t, r, k) : t \in RoomIds, r \in Roles, k \in {K1, K2}}

\* C6: a join-room for a slot held with another token is answered role-taken,
\* the joining connection is closed and is not bound, and the slot keeps its
\* connection and token.
C6_RoleTaken ==
    \A ws \in Conns : \A raw \in AllJoins :
        LET held == Slot(rooms, raw.transferId, raw.role)
        IN  (CanReceive(ws) /\ UnderCap(ws) /\ held # NoPeer /\ held.token # raw.token)
            => LET R == onMessage(Relay, ws, raw)
               IN  /\ R.readyState[ws] # "OPEN"
                   /\ readyState[ws] = "OPEN" =>
                        R.trace = <<Sent(ws, ErrorFrame("role-taken")),
                                    Closed(ws, 1008, "role-taken")>>
                   /\ \A r \in Roles :
                        Slot(R.rooms, raw.transferId, r) = Slot(rooms, raw.transferId, r)
                   /\ R.wsPeer = wsPeer

\* a join has been refused with role-taken while the slot's holder stays
C6_Witness ==
    \E ws \in Conns :
        /\ trace = <<Sent(ws, ErrorFrame("role-taken")), Closed(ws, 1008, "role-taken")>>
        /\ \E c \in Conns \ {ws} : Slot(rooms, T1, "sender") = [ws |-> c, token |-> K1]

BoundTo(id, role) ==
    {c \in Conns : readyState[c] = "OPEN" /\ wsPeer[c].transferId = id
                     /\ wsPeer[c].role = role}

\* C7: no slot has two open connections (the open connections bound to a slot
\* are at most the one the slot holds), and a join-room with the token of a
\* slot held by another connection closes that connection first and then
\* installs the joiner.
C7_OneLiveConnection ==
    /\ \A id \in RoomIds : \A role \in Roles :
        /\ Cardinality(BoundTo(id, role)) <= 1
        /\ \A c \in BoundTo(id, role) : Slot(rooms, id, role).ws = c
    /\ \A ws \in Conns : \A raw \in AllJoins :
        LET held == Slot(rooms, raw.transferId, raw.role)
        IN  (CanReceive(ws) /\ UnderCap(ws) /\ held # NoPeer /\ held.token = raw.token
                /\ held.ws # ws)
            => LET R == onMessage(Relay, ws, raw)
               IN  /\ R.readyState[held.ws] # "OPEN"
                   /\ readyState[held.ws] = "OPEN" =>
                        R.trace[1] = Closed(held.ws, 1000, "replaced")
                   /\ Slot(R.rooms, raw.transferId, raw.role)
                        = [ws |-> ws, token |-> raw.token]

\* a connection has taken over a slot and the connection it replaced was closed
C7_Witness ==
    \E ws \in Conns : \E old \in Conns \ {ws} :
        /\ Len(trace) >= 2
        /\ trace[1] = Closed(old, 1000, "replaced")
        /\ Slot(rooms, T1, "sender") = [ws |-> ws, token |-> K1]
        /\ readyState[old] = "CLOSING"
        /\ readyState[ws] = "OPEN"

\* C8: between handlers no room of the table has both slots empty.
C8_NoEmptyRoom ==
    \A i \in 1..Len(rooms) : rooms[i].sender # NoPeer \/ rooms[i].receiver # NoPeer

\* the close of a room's last occupant has removed the room, while another
\* room stays
C8_Witness ==
    /\ event.kind = "close"
    /\ event.peer # NoBinding
    /\ event.removed = 1
    /\ ~HasRoom(rooms, event.peer.transferId)
    /\ Len(rooms) = 1

Detached(ws) ==
    {onClose(Relay, ws)} \cup (IF CanReceive(ws) THEN {onError(Relay, ws)} ELSE {})

\* C9: the close or error of a connection bound to slot (id, role) of a room of
\* the table leaves that slot without the connection, sends peer-left to the
\* open occupant of the other slot, removes the room exactly when both slots
\* are then empty, and leaves every other room alone.
C9_Detach ==
    \A ws \in Conns :
        (readyState[ws] \in {"OPEN", "CLOSING"} /\ wsPeer[ws] # NoBinding
            /\ HasRoom(rooms, wsPeer[ws].transferId))
        => \A R \in Detached(ws) :
            LET id == wsPeer[ws].transferId
                role == wsPeer[ws].role
                otherRole == getOtherRole(role)
                other == Slot(rooms, id, otherRole)
                mine == Slot(rooms, id, role)
                left == IF mine.ws = ws THEN NoPeer ELSE mine
            IN  /\ Slot(R.rooms, id, role).ws # ws
                /\ (other # NoPeer /\ other.ws # ws /\ readyState[other.ws] = "OPEN")
                    => R.trace = <<Sent(other.ws, PeerLeft(id, otherRole, role))>>
                /\ HasRoom(R.rooms, id) <=> (left # NoPeer \/ other # NoPeer)
                /\ HasRoom(R.rooms, id) =>
                    /\ Slot(R.rooms, id, role) = left
                    /\ Slot(R.rooms, id, otherRole) = other
                /\ \A t \in RoomIds \ {id} :
                    /\ HasRoom(R.rooms, t) <=> HasRoom(rooms, t)
                    /\ HasRoom(rooms, t) => GetRoom(R.rooms, t) = GetRoom(rooms, t)

\* a peer has been told that the other peer of its room left
C9_Witness ==
    \E ws \in Conns : \E gone \in Conns \ {ws} :
        /\ trace = <<Sent(ws, PeerLeft(T1, "receiver", "sender"))>>
        /\ readyState[gone] \in {"CLOSING", "CLOSED"}
        /\ Slot(rooms, T1, "receiver").ws = ws
        /\ Slot(rooms, T1, "sender") = NoPeer

PeersOf(room) == {p \in {room.sender, room.receiver} : p # NoPeer}

\* the sweep removes each room that `idle` selects, and every open peer of it
\* is sent room-expired and then closed; each room that `recent` selects stays
\* as it is.
Swept(idle(_), recent(_)) ==
    LET R == pruneIdleRooms(Relay)
    IN  \A i \in 1..Len(rooms) :
            LET room == rooms[i]
            IN  /\ idle(room) =>
                     /\ ~HasRoom(R.rooms, room.transferId)
                     /\ \A p \in PeersOf(room) :
                            /\ R.readyState[p.ws] # "OPEN"
                            /\ readyState[p.ws] = "OPEN" =>
                                \E k \in 1..(Len(R.trace) - 1) :
                                    /\ R.trace[k] = Sent(p.ws, ErrorFrame("room-expired"))
                                    /\ R.trace[k + 1] = Closed(p.ws, 1000, "room-expired")
                /\ recent(room) =>
                     /\ HasRoom(R.rooms, room.transferId)
                     /\ GetRoom(R.rooms, room.transferId) = room

IdleSinceTouched(room) == now - room.touchedAt >= ROOM_IDLE_TTL_MS
TouchedRecently(room) == now - room.touchedAt < ROOM_IDLE_TTL_MS
IdleSinceActivity(room) == now - activity[room.transferId] > ROOM_IDLE_TTL_MS
ActiveRecently(room) == now - activity[room.transferId] < ROOM_IDLE_TTL_MS

\* C10 as amended: the sweep removes every room whose touchedAt is at least the
\* idle TTL old, telling and closing its open peers, and leaves the others
\* alone; touchedAt is set by every well-formed join-room naming the room, also
\* one refused with role-taken, and by every relay frame that passes the
\* credential and signal checks, also one answered peer-missing.
C10_Sweep ==
    /\ Swept(IdleSinceTouched, TouchedRecently)
    /\ \A ws \in Conns : \A raw \in AllJoins \cup {Relayed(Matching(ws), Signal("ready"))} :
        (CanReceive(ws) /\ UnderCap(ws) /\ HasRoom(rooms, raw.transferId)
            /\ (raw.type = "relay" => wsPeer[ws] # NoBinding))
        => GetRoom(onMessage(Relay, ws, raw).rooms, raw.transferId).touchedAt = now

\* the sweep has removed an idle room and sent its peer away
C10_Witness ==
    \E ws \in Conns :
        /\ trace = <<Sent(ws, ErrorFrame("room-expired")), Closed(ws, 1000, "room-expired")>>
        /\ readyState[ws] = "CLOSING"
        /\ wsPeer[ws] # NoBinding
        /\ ~HasRoom(rooms, wsPeer[ws].transferId)

\* C10 as stated: the sweep removes every room without a successful join or a
\* forwarded relay for longer than the idle TTL and leaves the others alone.
C10_Original == Swept(IdleSinceActivity, ActiveRecently)

\* who holds which slot, whatever the rooms' touchedAt
SlotsOf(rs) == [id \in RoomIds |-> [r \in Roles |-> Slot(rs, id, r)]]

\* C11: a relay frame of an open, joined connection in which the transferId,
\* the role or the token differs from what the connection joined with is
\* answered auth-mismatch and nothing else happens: no frame goes to any other
\* connection, no connection is closed, and rooms and bindings stay as they are.
C11_AuthMismatch ==
    \A ws \in Conns : \A p \in Mismatched(ws) : \A sig \in Signals :
        LET raw == Relayed(p, sig)
        IN  (readyState[ws] = "OPEN" /\ wsPeer[ws] # NoBinding /\ UnderCap(ws)
                /\ ByteLength(raw) <= MAX_MESSAGE_BYTES)
            => LET R == onMessage(Relay, ws, raw)
               IN  /\ R.trace = <<Sent(ws, ErrorFrame("auth-mismatch"))>>
                   /\ R.readyState = readyState
                   /\ R.rooms = rooms
                   /\ R.wsPeer = wsPeer

\* a joined connection that is still open has been answered auth-mismatch
\* while the other slot of its room is held by an open connection
C11_Witness ==
    \E ws \in Conns : \E c \in Conns \ {ws} :
        /\ trace = <<Sent(ws, ErrorFrame("auth-mismatch"))>>
        /\ readyState[ws] = "OPEN"
        /\ wsPeer[ws] = [transferId |-> T1, role |-> "sender", token |-> K1]
        /\ Slot(rooms, T1, "receiver").ws = c
        /\ readyState[c] = "OPEN"

\* C12: a relay frame with the credentials of its join and a valid signal, from
\* an open connection whose room has nobody in the opposite slot, is answered
\* peer-missing and changes no slot; and the relay keeps no signal: whenever a
\* relay frame goes out, it carries the signal of the frame handled in that
\* same step and goes to the connection that held the opposite slot before it,
\* so a peer that joins later is never handed an earlier signal.
C12_PeerMissing ==
    /\ [][\A ws \in Conns : \A sig \in Signals : \A r \in Roles : \A o \in Roles \ {r} :
            (readyState[ws] = "OPEN" /\ wsPeer[ws] # NoBinding /\ wsPeer[ws].role = r
                /\ UnderCap(ws) /\ validateSignal(sig)
                /\ ByteLength(Relayed(wsPeer[ws], sig)) <= MAX_MESSAGE_BYTES
                /\ HasRoom(rooms, wsPeer[ws].transferId)
                /\ Slot(rooms, wsPeer[ws].transferId, o) = NoPeer
                /\ OnMessage(ws, Relayed(wsPeer[ws], sig)))
            => /\ trace' = <<Sent(ws, ErrorFrame("peer-missing"))>>
               /\ SlotsOf(rooms') = SlotsOf(rooms)
               /\ wsPeer' = wsPeer
               /\ readyState' = readyState]_vars
    /\ [][\A i \in 1..Len(trace') :
            (trace'[i].op = "send" /\ trace'[i].payload.type = "relay")
            => \E ws \in Conns : \E raw \in Frames(ws) : \E r \in Roles : \E o \in Roles \ {r} :
                /\ OnMessage(ws, raw)
                /\ raw.type = "relay"
                /\ raw.signal = trace'[i].payload.signal
                /\ wsPeer[ws].role = r
                /\ Slot(rooms, wsPeer[ws].transferId, o).ws = trace'[i].to]_vars

\* a sender alone in its room has been answered peer-missing
C12_Witness ==
    \E ws \in Conns :
        /\ trace = <<Sent(ws, ErrorFrame("peer-missing"))>>
        /\ readyState[ws] = "OPEN"
        /\ wsPeer[ws] = [transferId |-> T1, role |-> "sender", token |-> K1]
        /\ Slot(rooms, T1, "sender").ws = ws
        /\ Slot(rooms, T1, "receiver") = NoPeer

TerminalCodes == {"rate-limited", "message-too-large", "invalid-join", "role-taken"}
ReportedCodes ==
    {"invalid-json", "invalid-type", "unknown-type", "not-joined", "auth-mismatch",
     "invalid-signal", "missing-room", "peer-missing"}

\* what one inbound message may close: its own connection with a terminal error
\* code, and, when byRequest, also its own connection on leave-room and the
\* connection a join-room with the same token replaces
ClosesOnly(ws, raw, R, byRequest) ==
    \A i \in 1..Len(R.trace) :
        R.trace[i].op = "close" =>
            \/ /\ R.trace[i].to = ws
               /\ R.trace[i].code = 1008
               /\ R.trace[i].reason \in TerminalCodes
               /\ i > 1
               /\ R.trace[i - 1] = Sent(ws, ErrorFrame(R.trace[i].reason))
            \/ /\ byRequest
               /\ raw.type = "leave-room"
               /\ R.trace[i] = Closed(ws, 1000, "leave-room")
            \/ /\ byRequest
               /\ raw.type = "join-room"
               /\ R.trace[i].to # ws
               /\ R.trace[i].code = 1000
               /\ R.trace[i].reason = "replaced"

\* the error an inbound message of an open connection under its rate cap gets
\* when it is malformed or has no or an unknown type
Malformed ==
    {<<Unparsed("garbage", SmallPad), "invalid-json">>,
     <<Unparsed("object", SmallPad), "invalid-type">>,
     <<Frame("ping", T1, "sender", K1, NoSignal, SmallPad), "unknown-type">>}

StaysOpen(ws, raw, R, byRequest) ==
    /\ ClosesOnly(ws, raw, R, byRequest)
    /\ \A code \in ReportedCodes :
        (\E i \in 1..Len(R.trace) : R.trace[i] = Sent(ws, ErrorFrame(code)))
        => /\ R.trace = <<Sent(ws, ErrorFrame(code))>>
           /\ R.readyState = readyState
           /\ SlotsOf(R.rooms) = SlotsOf(rooms)
           /\ Len(R.rooms) = Len(rooms)
           /\ R.wsPeer = wsPeer
    /\ \A m \in Malformed :
        (raw = m[1] /\ readyState[ws] = "OPEN" /\ UnderCap(ws))
        => R.trace = <<Sent(ws, ErrorFrame(m[2]))>>
    /\ (raw.type = "relay" /\ raw.json = "object" /\ readyState[ws] = "OPEN" /\ UnderCap(ws)
            /\ wsPeer[ws] = NoBinding /\ ByteLength(raw) <= MAX_MESSAGE_BYTES)
        => R.trace = <<Sent(ws, ErrorFrame("not-joined"))>>

\* C13 as amended: an inbound message closes its own connection only with
\* rate-limited, message-too-large, invalid-join or role-taken, or because it
\* is a leave-room, and a join-room closes the connection it replaces; a
\* message answered invalid-json, invalid-type, unknown-type, not-joined,
\* auth-mismatch, invalid-signal, missing-room or peer-missing gets that error
\* only, no connection is closed, and no slot and no binding changes.
C13_OnlyPolicyCloses ==
    \A ws \in Conns : \A raw \in Frames(ws) :
        CanReceive(ws) => StaysOpen(ws, raw, onMessage(Relay, ws, raw), TRUE)

\* a joined connection has sent a frame of an unknown type, has been told so,
\* and is still open and in its slot
C13_Witness ==
    \E ws \in Conns :
        /\ trace = <<Sent(ws, ErrorFrame("unknown-type"))>>
        /\ readyState[ws] = "OPEN"
        /\ wsPeer[ws] # NoBinding
        /\ Slot(rooms, wsPeer[ws].transferId, wsPeer[ws].role).ws = ws

\* C13 as stated: an inbound message closes a connection only with one of the
\* policy errors, and the reported errors leave connection and slots alone.
C13_Original ==
    \A ws \in Conns : \A raw \in Frames(ws) :
        CanReceive(ws) => StaysOpen(ws, raw, onMessage(Relay, ws, raw), FALSE)

----------------------------------------------------------------------------
(* Properties of the stores *)

Contenders(code) ==
    {j \in JoinCallers : joining[j].pc # "idle" /\ joining[j].transferCode = code}
Answered(code) == {j \in Contenders(code) : joining[j].pc = "done"}
Winners(code) == {j \in Answered(code) : joining[j].result.ok}
\* the calls that found the session stored and had every request answered
Served(code) == {j \in Contenders(code) : joining[j].existed /\ ~joining[j].failed}

Stored(code) ==
    IF store.byCode[code] # NoId /\ HasSession(store.byId, store.byCode[code])
    THEN store.byId[SessionIndex(store.byId, store.byCode[code])]
    ELSE [transferId |-> NoId, expiresAt |-> 0, state |-> "none"]

\* C2: a join on the code of a stored session whose expiresAt is not after
\* the time of the call returns expired, also when the session is joined.
C2_ExpiredJoin ==
    [][/\ \A c \in TypedCodes : \A elapsed \in {0, 1} :
            (Stored(Normalized(c)).transferId # NoId
                /\ Stored(Normalized(c)).expiresAt <= now
                /\ JoinTransferSession(c, elapsed))
            => returned'.result = Failure("expired")
       /\ \A j \in JoinCallers :
            (joining[j].pc = "load" /\ JoinLoad(j, "ok")
                /\ HasRow(table, joining[j].transferCode)
                /\ DateParse(loadSessionByCode(table, joining[j].transferCode).expires_at)
                        <= now)
            => joining'[j].result = Failure("expired")]_vars

----------------------------------------------------------------------------
(* Properties of the orchestrator *)

\* C14: when the sender's data-channel messages are delivered in send order,
\* the byte stream the receiver exposes on done is byte for byte the source
\* file, a zero-byte file included.
C14_ByteIdentical ==
    orchestrator[Receiver].download # NoDownload =>
        orchestrator[Receiver].download = SourceBytes(orchestrator[Sender].selectedFile)

\* what the sender has given its data channel, and the sizes of the binary
\* chunks among it
SentBy(b) == orchestrator[b].dataChannelRef.sent
IsBinary(m) == m.kind = "binary"
ChunkSizes(sent) ==
    LET chunks == SelectSeq(sent, IsBinary)
    IN  [i \in 1..Len(chunks) |-> byteLength(chunks[i])]

RECURSIVE Total(_)
Total(sizes) == IF sizes = <<>> THEN 0 ELSE Head(sizes) + Total(Tail(sizes))

CeilDiv(n, k) == (n + k - 1) \div k

Finished(sent) == sent # <<>> /\ sent[Len(sent)] = Done

\* C15: a file of n bytes goes out as ceil(n / 65536) chunks, all of 65,536
\* bytes except possibly the last, whose sizes add up to n: 150,000 bytes give
\* 65536, 65536, 18928 and a file of 0 bytes gives no chunk.
C15_Chunking ==
    LET n == orchestrator[Sender].selectedFile
        sizes == ChunkSizes(SentBy(Sender))
    IN  Finished(SentBy(Sender)) =>
            /\ Len(sizes) = CeilDiv(n, 65536)
            /\ \A i \in 1..Len(sizes) - 1 : sizes[i] = 65536
            /\ sizes # <<>> => sizes[Len(sizes)] \in 1..65536
            /\ Total(sizes) = n
            /\ n = 150000 => sizes = <<65536, 65536, 18928>>
            /\ n = 0 => sizes = <<>>

C15_Witness ==
    /\ Finished(SentBy(Sender))
    /\ orchestrator[Sender].selectedFile = 150000
    /\ Len(ChunkSizes(SentBy(Sender))) = 3

Extends(longer, shorter) ==
    /\ Len(shorter) < Len(longer)
    /\ SubSeq(longer, 1, Len(shorter)) = shorter

MetaFirst(sent, size) ==
    /\ sent # <<>> => sent[1] = Meta(size)
    /\ \A i \in 2..Len(sent) : sent[i].kind = "binary" \/ sent[i] = Done
    /\ \A i \in 1..Len(sent) - 1 : sent[i] # Done

\* C16: on its data channel the sender sends meta first, then only binary
\* chunks, then done as the last message: no chunk goes before meta, and
\* nothing is added after done for as long as the sender holds the channel.
C16_MetaChunksDone ==
    /\ [](MetaFirst(SentBy(Sender), orchestrator[Sender].selectedFile))
    /\ [][\/ SentBy(Sender)' = SentBy(Sender)
          \/ orchestrator[Sender].dataChannelRef' = NoChannel
          \/ /\ ~Finished(SentBy(Sender))
             /\ Extends(SentBy(Sender)', SentBy(Sender))]_vars

C16_Witness ==
    /\ Finished(SentBy(Sender))
    /\ Len(SentBy(Sender)) = 4
    /\ orchestrator[Sender].status = "completed"

\* the events the component escalates with handleLiveFailure: the 15 s
\* watchdog, a close of the data channel before the transfer completed, an
\* error of the channel, of the relay socket or of the peer connection
FailureEvent(b) ==
    \/ ConnectTimeout(b)
    \/ ChannelClose(b) /\ orchestrator[b].statusRef # "completed"
    \/ ChannelError(b)
    \/ \E ws \in SocketIds : SocketError(b, ws)
    \/ ConnectionStateChange(b, "failed")

\* the component shows the sender's side and holds a file within the ceiling
SenderWithin(C) ==
    /\ C.role = "sender"
    /\ C.selectedFile # NoFile
    /\ C.selectedFile <= C.maxUploadBytes

\* C17: a connectivity timeout, a channel close before done or a transport
\* failure leaves the status failed and, for a sender whose file is within
\* the ceiling, has the fallback upload started; and the upload is started
\* at most once between two starts of a session attempt, however many
\* failure events there are.
C17_FallbackOnce ==
    /\ [](orchestrator[Local].uploads <= 1)
    /\ [][FailureEvent(Local) =>
             /\ orchestrator[Local]'.status = "failed"
             /\ SenderWithin(orchestrator[Local]) => orchestrator[Local]'.uploads >= 1]_vars

UploadStarted(b) == orchestrator[b]'.uploads > orchestrator[b].uploads

\* C18: the fallback upload is never started while the local role is receiver
\* or while the file is larger than the configured ceiling; a failure of a
\* sender whose file is larger is reported without an upload.
C18_NoFallback ==
    /\ [][UploadStarted(Local) => SenderWithin(orchestrator[Local])]_vars
    /\ [][/\ FailureEvent(Local)
          /\ orchestrator[Local].role = "sender"
          /\ orchestrator[Local].selectedFile > orchestrator[Local].maxUploadBytes
          => /\ orchestrator[Local]'.error
             /\ orchestrator[Local]'.uploads = orchestrator[Local].uploads]_vars

\* a step arms the reconnect timer
Rearmed(b) ==
    /\ orchestrator[b]'.reconnectTimerRef # NoTimer
    /\ orchestrator[b]'.reconnectTimerRef # orchestrator[b].reconnectTimerRef

\* C19: the relay is reconnected to at most 3 times per session attempt, each
\* time after a longer delay than the time before, and the close of a relay
\* socket arms no reconnection when the component closed the socket itself
\* or when the status is completed.
C19_BoundedReconnect ==
    /\ [](orchestrator[Local].reconnects <= MAX_RECONNECT_ATTEMPTS)
    /\ [](orchestrator[Local].reconnectTimerRef # NoTimer =>
            LET timer == orchestrator[Local].reconnectTimerRef
            IN  /\ timer.nextAttempt \in 1..MAX_RECONNECT_ATTEMPTS
                /\ timer.delay = reconnectDelay(timer.nextAttempt)
                /\ \A earlier \in 1..timer.nextAttempt - 1 :
                       reconnectDelay(earlier) < timer.delay)
    /\ [][\A ws \in SocketIds :
             /\ SocketClose(Local, ws)
             /\ \/ orchestrator[Local].sockets[ws].manual
                \/ orchestrator[Local].status = "completed"
             => ~Rearmed(Local)]_vars

IceCandidate == [type |-> "relay", peerPresent |-> FALSE, signal |-> "ice-candidate"]

\* ws.onmessage hands an ice-candidate signal of the peer to handleRelaySignal
IceArrives(b) == \E ws \in SocketIds : SocketMessage(b, ws, IceCandidate)

\* the connection, if there is one, has no remote description yet
Early(C) == C.pcRef = NoPc \/ C.pcRef.remote # "set"

\* C20: an ice-candidate signal that arrives before the remote description is
\* set is kept (the connection stays, with one more candidate waiting) and
\* does not fail the connection; when the remote description is set, the
\* candidates that waited are applied.
C20_EarlyCandidate ==
    /\ [][IceArrives(Local) /\ Early(orchestrator[Local]) =>
             /\ orchestrator[Local]'.pcRef # NoPc
             /\ orchestrator[Local]'.pcRef.queued = orchestrator[Local].pcRef.queued + 1
             /\ orchestrator[Local]'.status = orchestrator[Local].status]_vars
    /\ [][/\ orchestrator[Local].pcRef.remote = "pending"
          /\ orchestrator[Local]'.pcRef.remote = "set"
          => /\ orchestrator[Local]'.pcRef.applied =
                    orchestrator[Local].pcRef.applied + orchestrator[Local].pcRef.queued
             /\ orchestrator[Local]'.pcRef.queued = 0]_vars

BothPresent ==
    /\ HasRoom(rooms, T1)
    /\ GetRoom(rooms, T1).sender # NoPeer
    /\ GetRoom(rooms, T1).receiver # NoPeer

ReadySent(b) == \E i \in 1..Len(orchestrator[b].signals) : orchestrator[b].signals[i] = "ready"
Described(b) == orchestrator[b].pcRef.remote \in {"pending", "set"}

OfferStarts ==
    /\ orchestrator[Sender].offerTask.state # "pending"
    /\ orchestrator[Sender].offerTask.state' = "pending"

HearsReady(b) ==
    /\ orchestrator[b].inbox # <<>>
    /\ Head(orchestrator[b].inbox).type = "relay"
    /\ Head(orchestrator[b].inbox).signal = "ready"

\* C21: each peer sends a ready, and only once both peers are in the room; the
\* sender starts its offer only on receiving the peer's ready; with the relay
\* delivering in order both connections end up with a local and a remote
\* description; the receiver gets the offer only after the sender made it, the
\* sender gets the answer only after the receiver made it, and no side fails
\* on the way.
C21_Handshake ==
    /\ \A b \in Browsers : <>ReadySent(b)
    /\ [](\A b \in Browsers : ReadySent(b) => BothPresent)
    /\ [][OfferStarts => HearsReady(Sender)]_vars
    /\ BothPresent ~> (Negotiated(orchestrator[Sender]) /\ Negotiated(orchestrator[Receiver]))
    /\ [](Described(Receiver) => orchestrator[Sender].pcRef.local)
    /\ [](Described(Sender) => orchestrator[Receiver].pcRef.local)
    /\ [](\A b \in Browsers : orchestrator[b].status # "failed")

C21_Witness ==
    /\ Negotiated(orchestrator[Sender])
    /\ Negotiated(orchestrator[Receiver])
    /\ orchestrator[Sender].pcRef.applied = MaxCandidates
    /\ orchestrator[Receiver].pcRef.applied = MaxCandidates

\* nothing of a session is left: no channel, no connection, no relay socket
\* that is open or opening, no watchdog and no reconnect timer
Released(C) ==
    /\ C.dataChannelRef = NoChannel
    /\ C.pcRef = NoPc
    /\ C.wsRef = NoWs
    /\ \A ws \in SocketIds : C.sockets[ws].state \notin {"open", "connecting"}
    /\ ~C.connectTimeoutRef.armed
    /\ C.reconnectTimerRef = NoTimer

\* C22: whenever the role is switched or the component is torn down, the data
\* channel, the peer connection and every relay socket are closed and the
\* watchdog and the reconnect timer are released; doing it again changes
\* nothing; and while the component holds no credentials everything stays
\* released and neither timer fires.
C22_Cancellation ==
    /\ [](\A nextRole \in Roles :
            LET C == resetForRole(orchestrator[Local], nextRole)
            IN  Released(C) /\ resetForRole(C, nextRole) = C)
    /\ [](LET C == cleanup(orchestrator[Local])
          IN  Released(C) /\ cleanup(C) = C)
    /\ [](orchestrator[Local].credsRef = NoCreds => Released(orchestrator[Local]))
    /\ [][ConnectTimeout(Local) \/ ReconnectTimer(Local)
            => orchestrator[Local].credsRef # NoCreds]_vars

\* C23: once a peer has handled a cancel message of the data channel its
\* status is failed, its channel and its connection are closed, a transfer
\* task that is still sending is bound to fail, and the peer does not report
\* the transfer as completed for as long as it has not started a new peer
\* connection or session (cancelled is true from the cancel message until
\* then).
C23_CancelAborts ==
    /\ [][ChannelMessage(Local, CancelMessage) =>
            /\ orchestrator[Local]'.status = "failed"
            /\ orchestrator[Local]'.dataChannelRef = NoChannel
            /\ orchestrator[Local]'.pcRef = NoPc
            /\ orchestrator[Local]'.loop.pc = "sending" => orchestrator[Local]'.loop.doomed]_vars
    /\ [](orchestrator[Local].cancelled => orchestrator[Local].status # "completed")

\* a sender has handled a cancel message and the work that follows the
\* failure has run
C23_Witness ==
    /\ orchestrator[Local].cancelled
    /\ orchestrator[Local].status = "failed"
    /\ orchestrator[Local].statusRef = "failed"
    /\ orchestrator[Local].credsRef.role = "sender"
    /\ orchestrator[Local].dataChannelRef = NoChannel
    /\ orchestrator[Local].loop = NoLoop

Minutes(n) == n * 60 * 1000

\* the session a create call has just stored
Created == store.byId[SessionIndex(store.byId, returned.result.transferId)]

\* the codes of the model are codes makeTransferCode makes
CodesAreDrawn == Codes = {Text(makeTransferCode(random)) : random \in Draws}

\* whatever the random bytes, the code has the form
EveryByteMatches ==
    \A byte \in 0..255 : MatchesCodePattern(makeTransferCode(<<byte, 255 - byte, byte, byte>>))

\* whatever the override and the argument, the lifetime is 10 to 30 minutes;
\* readTtlMinutes is readTtlMinutesWith for no override
EveryTtlClamped ==
    \A fromEnv \in EnvTtls : \A ttlMinutes \in TtlInputs :
        /\ readTtlMinutesWith(fromEnv, ttlMinutes) \in MIN_TTL_MINUTES..MAX_TTL_MINUTES
        /\ readTtlMinutesWith(NoTtl, ttlMinutes) = readTtlMinutes(ttlMinutes)

\* C24: a create call with no ttlMinutes or with a positive one returns a code
\* of four characters, a dash and four characters, each a capital letter or
\* a digit, and a session that expires 10 to 30 minutes after it was created,
\* 15 minutes when ttlMinutes is omitted and no override is set.
C24_CodeAndTtl ==
    /\ [](CodesAreDrawn /\ EveryByteMatches /\ EveryTtlClamped)
    /\ [](returned.op = "create" =>
            /\ returned.result.ok
            /\ MatchesCodePattern(CharsOf(Created.transferCode))
            /\ Created.createdAt = returned.at
            /\ Created.expiresAt - Created.createdAt \in
                   Minutes(MIN_TTL_MINUTES)..Minutes(MAX_TTL_MINUTES))
    /\ [][\A c \in Codes : CreateTransferSession(NoTtl, c) =>
             Created'.expiresAt = now + Minutes(DEFAULT_TTL_MINUTES)]_vars

\* sessions of the shortest, the default and the longest lifetime are stored
C24_Witness ==
    /\ returned.op = "create"
    /\ Len(store.byId) = 2
    /\ \E i, k \in 1..Len(store.byId) :
          /\ store.byId[i].expiresAt - store.byId[i].createdAt = Minutes(MIN_TTL_MINUTES)
          /\ store.byId[k].expiresAt - store.byId[k].createdAt = Minutes(MAX_TTL_MINUTES)

\* what makeTransferCode may return in the first MAX_CREATE_RETRIES calls
DrawSeqs == [1..MAX_CREATE_RETRIES -> Codes]

\* C25: a create call of the in-memory store is over after at most 5 codes
\* have been drawn, whatever the codes are, and the code a create call stores
\* is one its loop can end with.
C25_CreateTerminates ==
    /\ [](LET byCode == pruneExpiredSessions(Memory).byCode
          IN  \A draws \in DrawSeqs : generate(byCode, draws, 0).ended)
    /\ [][\A ttlMinutes \in TtlInputs : \A c \in Codes :
             CreateTransferSession(ttlMinutes, c) =>
                 \E draws \in DrawSeqs :
                     generate(pruneExpiredSessions(Memory).byCode, draws, 0).transferCode = c]_vars

\* the characters a caller sends for a typed code
TypedChars(transferCode) ==
    IF transferCode.lower THEN toLowerCase(CharsOf(transferCode.text))
    ELSE CharsOf(transferCode.text)

\* toUpperCase takes every typed form of a code to the code as it was issued,
\* and the small-letter form of a code differs from the code
NormalizedIsUpperCase ==
    \A c \in TypedCodes :
        /\ Text(toUpperCase(TypedChars(c))) = Normalized(c)
        /\ c.lower => Text(TypedChars(c)) # Normalized(c)

\* the session stored under a typed code is live through a join call that
\* takes elapsed
LiveFor(c, elapsed) ==
    /\ Stored(Normalized(c)).transferId # NoId
    /\ Stored(Normalized(c)).expiresAt > now + elapsed

\* C26: a join finds the session whatever the letter case of the code typed:
\* on a session that is stored, not expired and not joined yet it succeeds
\* and leaves the session joined, in small letters too, and on a session that
\* is joined and not expired it returns already-joined and leaves the
\* session as it is.
C26_CaseInsensitiveJoin ==
    /\ []NormalizedIsUpperCase
    /\ [][\A c \in TypedCodes : \A elapsed \in {0, 1} :
             JoinTransferSession(c, elapsed) /\ LiveFor(c, elapsed) =>
                 IF Stored(Normalized(c)).state = "created"
                 THEN /\ returned'.result.ok
                      /\ returned'.result.transferId = Stored(Normalized(c)).transferId
                      /\ Stored(Normalized(c))'.state = "joined"
                 ELSE /\ returned'.result = Failure("already-joined")
                      /\ Stored(Normalized(c))' = Stored(Normalized(c))]_vars

\* a session has been joined and a later join has been answered
\* already-joined
C26_Witness ==
    /\ returned.op = "join"
    /\ returned.result = Failure("already-joined")
    /\ Stored(returned.transferCode).state = "joined"

SessionErrors == {"not-found", "expired", "already-joined"}

\* the row a join call works on
RowOf(j) == loadSessionByCode(table, joining[j].transferCode)

C28_TokenIffJoined ==
    /\ \A i \in 1..Len(table) :
          /\ table[i].receiver_token # NoToken <=> table[i].state = "joined"
          /\ table[i].state \in {"created", "joined"}
    /\ \A i \in 1..Len(store.byId) :
          /\ store.byId[i].receiverToken # NoToken <=> store.byId[i].state = "joined"
          /\ store.byId[i].state \in {"created", "joined"}

\* one session is joined and holds a token while another is not and holds none
C28_Witness ==
    \E i, k \in 1..Len(table) :
        /\ table[i].state = "joined" /\ table[i].receiver_token # NoToken
        /\ table[k].state = "created" /\ table[k].receiver_token = NoToken

\* the session with this id, before and after a step
Before(id) == store.byId[SessionIndex(store.byId, id)]
After(id) == store.byId'[SessionIndex(store.byId', id)]

\* C29: a step leaves every session that stays in the store as it is, except
\* that a successful join of the session takes its state from created to
\* joined and sets its receiver token; the stored state is never expired, and
\* what a reader is shown is expired exactly when now >= expiresAt and the
\* stored state otherwise.
C29_OnlyJoinMutates ==
    /\ [][\A id \in 1..minted :
             HasSession(store.byId, id) /\ HasSession(store.byId', id) /\ After(id) # Before(id)
             => /\ Before(id).state = "created"
                /\ After(id) = [Before(id) EXCEPT !.state = "joined",
                                                  !.receiverToken = After(id).receiverToken]
                /\ returned'.op = "join"
                /\ returned'.result = Success(id, After(id).receiverToken)]_vars
    /\ [](\A i \in 1..Len(store.byId) :
            LET session == store.byId[i]
            IN  /\ session.state \in {"created", "joined"}
                /\ toPublicSession(session, now).state =
                       IF now >= session.expiresAt THEN "expired" ELSE session.state)

\* a joined session has reached its expiry and is still stored
C29_Witness ==
    \E i \in 1..Len(store.byId) :
        /\ store.byId[i].state = "joined"
        /\ now >= store.byId[i].expiresAt
        /\ toPublicSession(store.byId[i], now).state = "expired"

IsSend(e) == e.op = "send"
JoinedRoom(raw, peerPresent) ==
    [type |-> "joined-room", transferId |-> raw.transferId, role |-> raw.role,
     peerPresent |-> peerPresent]
PeerJoined(transferId, role, peerRole) ==
    [type |-> "peer-joined", transferId |-> transferId, role |-> role, peerRole |-> peerRole]
Opposite(role) == IF role = "sender" THEN "receiver" ELSE "sender"

\* C30: a join-room that is accepted binds the joiner; when the opposite slot
\* is held the relay sends the joiner joined-room with peerPresent true and a
\* peer-joined that names the holder's role, and sends the holder a
\* peer-joined that names the joiner's role; when the opposite slot is empty
\* it sends joined-room with peerPresent false and nothing else.  A frame
\* goes out to a connection only if that connection is open.
C30_JoinNotifies ==
    \A ws \in Conns : \A raw \in AllJoins :
        LET held == Slot(rooms, raw.transferId, raw.role)
            other == Slot(rooms, raw.transferId, Opposite(raw.role))
        IN  (CanReceive(ws) /\ UnderCap(ws) /\ (held = NoPeer \/ held.token = raw.token))
            => LET R == onMessage(Relay, ws, raw)
                   toJoiner(payload) ==
                       IF R.readyState[ws] = "OPEN" THEN <<Sent(ws, payload)>> ELSE <<>>
                   toHolder(payload) ==
                       IF R.readyState[other.ws] = "OPEN" THEN <<Sent(other.ws, payload)>>
                       ELSE <<>>
               IN  /\ R.wsPeer[ws] = [transferId |-> raw.transferId, role |-> raw.role,
                                      token |-> raw.token]
                   /\ Slot(R.rooms, raw.transferId, raw.role) = [ws |-> ws, token |-> raw.token]
                   /\ SelectSeq(R.trace, IsSend) =
                         IF other = NoPeer THEN toJoiner(JoinedRoom(raw, FALSE))
                         ELSE toJoiner(JoinedRoom(raw, TRUE))
                              \o toJoiner(PeerJoined(raw.transferId, raw.role,
                                                     Opposite(raw.role)))
                              \o toHolder(PeerJoined(raw.transferId, Opposite(raw.role),
                                                     raw.role))

\* the receiver has joined the room the sender holds: three frames went out
C30_Witness ==
    \E ws \in Conns : \E holder \in Conns \ {ws} :
        trace = <<Sent(ws, JoinedRoom(Join(T1, "receiver", K1), TRUE)),
                  Sent(ws, PeerJoined(T1, "receiver", "sender")),
                  Sent(holder, PeerJoined(T1, "sender", "receiver"))>>

IsPeerLeft(e) == e.op = "send" /\ e.payload.type = "peer-left"

\* C31: the relay sends peer-left about a role of a room only in a step that
\* leaves that role's slot empty; in particular the close of a connection that
\* a join with the same token replaced sends no peer-left while its successor
\* holds the slot.
C31_PeerLeftOnlyWhenEmpty ==
    [][\A i \in 1..Len(trace') :
        IsPeerLeft(trace'[i])
        => Slot(rooms', trace'[i].payload.transferId, trace'[i].payload.peerRole) = NoPeer]_vars

SlotsHeldBy(ws) ==
    {<<id, role>> \in RoomIds \X Roles : Slot(rooms, id, role).ws = ws}

\* C32: every occupied slot (id, role) holds a connection that is bound to
\* exactly (id, role); so a connection holds at most one slot over all rooms,
\* and no slot names a connection that has closed.
C32_SlotMatchesBinding ==
    /\ \A id \in RoomIds : \A role \in Roles :
        LET held == Slot(rooms, id, role)
        IN  held # NoPeer =>
                /\ wsPeer[held.ws].transferId = id
                /\ wsPeer[held.ws].role = role
    /\ \A ws \in Conns :
        /\ Cardinality(SlotsHeldBy(ws)) <= 1
        /\ readyState[ws] = "CLOSED" => SlotsHeldBy(ws) = {}

IsRelay(e) == e.op = "send" /\ e.payload.type = "relay"

\* the relay frames the step hands out go to `to` and nowhere else
RelaysOnlyTo(sends, to) == \A i \in 1..Len(sends) : IsRelay(sends[i]) => sends[i].to = to

\* C39: a relay frame of a connection bound to (id, role) goes out at most
\* once, to the occupant of the opposite slot of room id, and that occupant is
\* another connection, bound to room id with the opposite role.
C39_RelayIsolation ==
    [][\A ws \in RoomConns : \A raw \in RoomFrames(ws) :
        (raw.type = "relay" /\ OnMessage(ws, raw))
        => LET to == Slot(rooms, wsPeer[ws].transferId, Opposite(wsPeer[ws].role)).ws
           IN  /\ Len(SelectSeq(trace', IsRelay)) <= 1
               /\ RelaysOnlyTo(trace', to)
               /\ SelectSeq(trace', IsRelay) # <<>> =>
                    /\ to # ws
                    /\ wsPeer[to].transferId = wsPeer[ws].transferId
                    /\ wsPeer[to].role = Opposite(wsPeer[ws].role)]_vars

\* a relay message, a connection state change, a channel event or a timer
LiveEvent(b) ==
    \/ \E ws \in SocketIds : \E m \in ServerMessages : SocketMessage(b, ws, m)
    \/ \E nextState \in {"connected", "failed"} : ConnectionStateChange(b, nextState)
    \/ ChannelOpen(b)
    \/ ChannelClose(b)
    \/ ChannelError(b)
    \/ \E cl \in orchestrator[b].stale : \E fires \in BOOLEAN : StaleChannelClose(b, cl, fires)
    \/ \E data \in PeerMessages : ChannelMessage(b, data)
    \/ ConnectTimeout(b)
    \/ ReconnectTimer(b)

\* C33: once the status is completed, no relay message, connection state
\* change, channel event or timer changes it or starts a fallback upload.
C33_CompletedIsFinal ==
    [][(orchestrator[Local].status = "completed" /\ LiveEvent(Local))
        => /\ orchestrator[Local]'.status = "completed"
           /\ orchestrator[Local]'.uploads = orchestrator[Local].uploads]_vars

Ready == [type |-> "relay", peerPresent |-> FALSE, signal |-> "ready"]

\* ws.onmessage hands a ready signal of the peer to handleRelaySignal
ReadyArrives(b) == \E ws \in SocketIds : SocketMessage(b, ws, Ready)

\* the sender has sent an offer in this session attempt and has no peer
\* connection any more (peer-left or its own reconnection closed it), and the
\* peer is announced again
Restartable(C) ==
    /\ C.credsRef.role = "sender"
    /\ C.offers >= 1
    /\ C.pcRef = NoPc
    /\ C.status = "connecting"

\* C34: a sender that has sent an offer and has lost the peer connection since
\* (the receiver left, or the sender reconnected to the relay) starts a new
\* offer when the receiver's ready arrives.
C34_OfferAgain ==
    [][(ReadyArrives(Local) /\ Restartable(orchestrator[Local]))
        => orchestrator[Local]'.offerTask.state = "pending"]_vars

\* the sender's socket hands it a ready signal after an offer has been started
HearsReadyAgain ==
    /\ Hears(Sender)
    /\ Head(orchestrator[Sender].inbox) = Ready
    /\ orchestrator[Sender].offerSentRef

\* C40: in a session attempt the sender sends at most one offer; a ready signal
\* that arrives after the offer has been started starts no second one and
\* leaves the peer connection as it is.
C40_OneOffer ==
    /\ [](orchestrator[Sender].offers <= 1)
    /\ [][HearsReadyAgain =>
             /\ orchestrator[Sender]'.offerTask = orchestrator[Sender].offerTask
             /\ orchestrator[Sender]'.pcRef = orchestrator[Sender].pcRef
             /\ orchestrator[Sender]'.signals = orchestrator[Sender].signals
             /\ orchestrator[Sender]'.offers = orchestrator[Sender].offers]_vars

\* the sender has sent its offer and has turned a further ready away
C40_Witness ==
    /\ orchestrator[Sender].offers = 1
    /\ orchestrator[Sender].declined
    /\ Negotiated(orchestrator[Sender])

\* what the relay sends about the room: the answer to a join, and the peer's
\* arrival and departure
RoomMessages == {m \in ServerMessages : m.type \in {"joined-room", "peer-joined", "peer-left"}}

\* the browser's relay socket is lost or set up again, or the relay tells that
\* the peer's was
RelayLinkEvent(b) ==
    \/ \E ws \in SocketIds : SocketClose(b, ws)
    \/ \E ws \in SocketIds : SocketError(b, ws)
    \/ ReconnectTimer(b)
    \/ \E ws \in SocketIds : SocketOpen(b, ws)
    \/ \E ws \in SocketIds : \E m \in RoomMessages : SocketMessage(b, ws, m)

\* C35: while the status is transferring, the loss or the re-establishment of
\* a relay connection, the browser's own or the peer's, leaves the data channel
\* as it is and does not make the status failed.
C35_RelayLossKeepsTransfer ==
    [][(orchestrator[Local].status = "transferring" /\ RelayLinkEvent(Local))
        => /\ orchestrator[Local]'.dataChannelRef = orchestrator[Local].dataChannelRef
           /\ orchestrator[Local]'.status # "failed"]_vars

\* the relay sockets of a browser that are connecting or open
LiveSockets(C) == {i \in SocketIds : C.sockets[i].state \in {"connecting", "open"}}

\* C36: the component has at most one relay socket that is connecting or open,
\* and the close event of a socket that connectSignaling has replaced leaves
\* wsRef on the current socket and arms no reconnection.
C36_OneRelaySocket ==
    /\ [](Cardinality(LiveSockets(orchestrator[Local])) <= 1)
    /\ [][\A ws \in SocketIds :
             (SocketClose(Local, ws) /\ orchestrator[Local].wsRef \notin {NoWs, ws})
             => /\ orchestrator[Local]'.wsRef = orchestrator[Local].wsRef
                /\ ~Rearmed(Local)]_vars

\* the chunks the channel has handed the receiver so far, in arrival order
\* (known as long as the sender's channel exists)
Arrived ==
    LET got == SelectSeq(SubSeq(SentBy(Sender), 1, delivered), IsBinary)
    IN  [i \in 1..Len(got) |-> [from |-> got[i].from, to |-> got[i].to]]

StartsWith(seq, start) ==
    /\ Len(start) <= Len(seq)
    /\ SubSeq(seq, 1, Len(start)) = start

\* C37: the chunks the receiver has appended are the first of those that
\* arrived, in arrival order, and what it exposes on done is made of every
\* chunk that arrived before done.
C37_AppendInOrder ==
    delivered <= Len(SentBy(Sender)) =>
    /\ orchestrator[Receiver].incomingRef # NoIncoming =>
            StartsWith(Arrived, orchestrator[Receiver].incomingRef.chunks)
    /\ orchestrator[Receiver].download # NoDownload =>
            orchestrator[Receiver].download = BytesOf(Arrived)

\* what closePeerConnection leaves behind: the close event of the channel, the
\* continuations of the promises of the closed connection, and the transfer
\* task of the closed channel
ResetAftermath(b) ==
    \/ \E cl \in orchestrator[b].stale : \E fires \in BOOLEAN : StaleChannelClose(b, cl, fires)
    \/ \E ok \in BOOLEAN : OfferCreated(b, ok) \/ AnswerCreated(b, ok) \/ AnswerAccepted(b, ok)
    \/ SendChunk(b)

\* C38: after resetForRole, while no new session has been started, the events
\* that the reset's own closes bring about leave the status idle and start no
\* fallback upload.
C38_ResetStaysIdle ==
    [][(orchestrator[Local].credsRef = NoCreds /\ orchestrator[Local].status = "idle"
            /\ ResetAftermath(Local))
        => /\ orchestrator[Local]'.status = "idle"
           /\ orchestrator[Local]'.uploads = orchestrator[Local].uploads]_vars

TypeOK ==
    /\ \A i \in 1..Len(rooms) : rooms[i].transferId \in RoomIds
    /\ \A c \in Conns : readyState[c] \in {"NONE", "OPEN", "CLOSING", "CLOSED"}
    /\ clicks \in 0..MaxClicks
    /\ faults \in 0..MaxFaults
    /\ delivered \in Nat
    /\ \A b \in Browsers : orchestrator[b].role \in Roles
====
